---- MODULE Spec2Model ----
(***************************************************************************)
(* A model of unipept/libsais-packed: the alphabet mapper and bit-packer   *)
(* (bitpacking.c), the SA-IS engine libsais16x64 (libsais16x64.c) and the  *)
(* driver (main.c: build_sa_optimized, build_sa, compress_sa,              *)
(* decompress_sa, write_sa).                                               *)
(*                                                                         *)
(* Machine words wider than TLC's integers are kept as bit vectors:        *)
(* functions from bit position (0 = least significant) to 0 or 1.          *)
(***************************************************************************)
EXTENDS Integers, Sequences, FiniteSets, TLC

(***************************************************************************)
(* Bounds of the model.                                                    *)
(***************************************************************************)
\* longest byte text handed to the alphabet mapper and the bit-packer
MaxTextLen == 5
\* largest sparseness factor tried by the packer specification
MaxK == 4
\* largest bits_per_char tried by the packer specification
MaxB == 3
\* longest suffix array handed to write_sa
MaxSaLen == 12
\* largest sparseness factor handed to write_sa (the CLI documents 1..8)
MaxFactor == 8
\* longest array handed directly to compress_sa / decompress_sa
MaxArrLen == 3
\* the driver is run on every text of at most this length ...
MaxShortLen == 4
\* ... and on periodic texts of up to this length (two packed symbols at k = 16)
MaxLongLen == 18
\* longest period of the periodic texts
MaxSeedLen == 3
\* longest text handed to libsais16x64
MaxLen == 7
\* largest slack fs handed to libsais16x64
MaxFs == 2
\* longest text of a call with an invalid argument
MaxBadLen == 2
\* longest text whose return code is followed through the recursion
MaxN == 2000
\* longest text of a run of main
MaxMainLen == 2

(***************************************************************************)
(* Bit vectors.                                                            *)
(***************************************************************************)
RECURSIVE Pow2(_)
Pow2(e) == IF e = 0 THEN 1 ELSE 2 * Pow2(e - 1)

\* the powers of two TLC's integers hold
Pow2Tab == [p \in 0..30 |-> Pow2(p)]

\* the w-bit pattern of the natural number x (x < 2^31)
Bits(x, w) == [p \in 0..(w - 1) |-> IF p < 31 THEN (x \div Pow2Tab[p]) % 2 ELSE 0]

\* v << s in a w-bit register: bits shifted past the top are lost
Shl(v, s, w) == [p \in 0..(w - 1) |-> IF p >= s /\ (p - s) \in DOMAIN v THEN v[p - s] ELSE 0]

\* v >> s (logical) in a w-bit register
Shr(v, s, w) == [p \in 0..(w - 1) |-> IF (p + s) \in DOMAIN v THEN v[p + s] ELSE 0]

\* bitwise or of two vectors of equal width
BitOr(v, u) == [p \in DOMAIN v |-> IF v[p] = 1 \/ u[p] = 1 THEN 1 ELSE 0]

\* conversion to a narrower (or wider, zero-extended) unsigned type
Conv(v, w) == [p \in 0..(w - 1) |-> IF p \in DOMAIN v THEN v[p] ELSE 0]

RECURSIVE BitsVal(_, _)
\* the value of the low w bits of v (only used where it is below 2^31)
BitsVal(v, w) == IF w = 0 THEN 0 ELSE v[w - 1] * Pow2(w - 1) + BitsVal(v, w - 1)

(***************************************************************************)
(* C arrays are 0-based; the model keeps them as sequences and reads       *)
(* element i of a with At(a, i).                                           *)
(***************************************************************************)
At(a, i) == a[i + 1]

Put(a, i, x) == [a EXCEPT ![i + 1] = x]

RECURSIVE SeqsUpTo(_, _)
\* all sequences over S of length at most len
SeqsUpTo(S, len) ==
    IF len = 0 THEN {<<>>}
    ELSE LET shorter == SeqsUpTo(S, len - 1)
         IN  shorter \cup {Append(s, x) : s \in {t \in shorter : Len(t) = len - 1}, x \in S}

\* integer division rounding up, as (a + b - 1) / b does in main.c
CeilDiv(a, b) == (a + b - 1) \div b

VARIABLES
    \* ---- alphabet mapper and bit-packer (bitpacking.c) ----
    text,               \* the byte text
    sparseness_factor,  \* k
    bits_per_char,      \* b
    width,              \* W: which of bitpack_text_8/16/32/64 is called
    char_to_rank,       \* the table build_char_to_rank returns
    alphabet_size,      \* *alphabet_size
    text_packed,        \* the packed symbols, each a W-bit vector
    last_reads,         \* text positions read by the last-element loop
    ppc,                \* position of the packer run
    \* ---- output stage of the driver (main.c: write_sa, compress_sa, decompress_sa) ----
    sa,                 \* the uint64_t buffer handed to write_sa / compress_sa
    sa_length,          \* its current length (*sa_length)
    orig_sa,            \* the entries before compression (kept for the claims)
    bits_per_element,   \* the width used by write_sa / compress_sa
    compressed,         \* the -c flag
    out_factor,         \* write_sa's uint8_t sparseness_factor
    file,               \* the fwrite calls made on the output file, in order
    decompressed_sa,    \* the array decompress_sa returns
    opc,                \* position of the output run
    \* ---- construction of the sparse suffix array (main.c: main, build_sa_optimized, build_sa) ----
    in_text,            \* the bytes read_text returned
    dna,                \* the -d flag
    factor,             \* the -s argument, sparseness_factor
    ssa_optimized,      \* the entries build_sa_optimized returns
    ssa_sampled,        \* the first sa_length entries build_sa returns
    dpc,                \* position of the driver run
    optimized,          \* 1, or 0 when -u was given
    packed_width,       \* <<W>> once build_sa_optimized has chosen bitpack_text_W (0: none)
    engine_ret,         \* <<r>> once the suffix array construction call has returned r
    exit_status,        \* <<s>> once the process has terminated with status s
    text_buf,           \* the buffer read_text returned: the driver that holds it,
                        \* the calls of free on it, the reads of it made after one
    \* ---- the SA-IS engine (libsais16x64.c) ----
    T,                  \* the uint16_t text, or NULL
    SA,                 \* the caller's array of n + fs entries, or NULL
    freq,               \* the caller's frequency table, or NULL
    args,               \* the scalar arguments n and fs of libsais16x64
    SA0,                \* SA as it was before the call
    freq0,              \* freq as it was before the call
    buckets,            \* the bucket block libsais16x64_main allocates
    local_buffer,       \* sa_sint_t local_buffer[] of libsais16x64_main_32s_entry
    frame,              \* the locals of libsais16x64_main_16u
    frame32,            \* the parameters and locals of libsais16x64_main_32s_recursion
    heap,               \* calls of malloc made and blocks not yet freed
    index,              \* the value libsais16x64 returns
    epc,                \* position of the engine run
    \* the return codes of libsais16x64 over texts of any size
    stack,              \* the frames of the calls not yet returned, innermost last
    ret,                \* <<v>> when the innermost call of stack has returned v
    ret_marks,          \* positions of that call's T left with the sign bit set
    fail_depth,         \* the depth of stack at which an allocation failed, or 0
    blocks              \* heap blocks allocated and not yet freed

pvars == <<text, sparseness_factor, bits_per_char, width, char_to_rank,
           alphabet_size, text_packed, last_reads, ppc>>

ovars == <<sa, sa_length, orig_sa, bits_per_element, compressed, out_factor, file,
           decompressed_sa, opc>>

dvars == <<in_text, dna, factor, ssa_optimized, ssa_sampled, dpc, optimized,
           packed_width, engine_ret, exit_status, text_buf>>

evars == <<T, SA, freq, args, SA0, freq0, buckets, local_buffer, frame, frame32,
           heap, index, epc>>

rvars == <<stack, ret, ret_marks, fail_depth, blocks>>

vars == <<pvars, ovars, dvars, evars, rvars>>

\* what each stage leaves alone
NotPacker == <<ovars, dvars, evars, rvars>>
NotOutput == <<pvars, dvars, evars, rvars>>
NotDriver == <<pvars, ovars, evars, rvars>>
NotEngine == <<pvars, ovars, dvars, rvars>>
NotReturn == <<pvars, ovars, dvars, evars>>

(***************************************************************************)
(* bitpacking.c                                                            *)
(***************************************************************************)
\* the byte values the modelled texts are drawn from: '$', 'A', 'C'
PackBytes == {36, 65, 67}

\* the widths of bitpack_text_8, _16, _32, _64
Widths == {8, 16, 32, 64}

\* uint8_t occuring[256] after the first loop of build_char_to_rank
Occuring(txt) == [c \in 0..255 |-> IF \E i \in 1..Len(txt) : txt[i] = c THEN 1 ELSE 0]

\* the uint8_t counter chars when the second loop of build_char_to_rank reaches
\* byte i: one increment, modulo 2^8, for every occurring byte below i
CharsAt(occ, i) == Cardinality({c \in 0..(i - 1) : occ[c] # 0}) % 256

\* build_char_to_rank: the calloc'ed table (char_to_rank[i] = chars for an
\* occurring byte, 0 otherwise) and the value stored in *alphabet_size
build_char_to_rank(txt) ==
    LET occ == Occuring(txt)
    IN  [tab   |-> [i \in 0..255 |-> IF occ[i] # 0 THEN CharsAt(occ, i) ELSE 0],
         chars |-> CharsAt(occ, 256)]

\* the type in which `rank_c << shift` is evaluated: int for the 8- and 16-bit
\* packers (integer promotion), uint32_t and uint64_t for the others
ShiftWidth(W) == IF W = 64 THEN 64 ELSE 32

RECURSIVE PackGroupLittleEndian(_, _, _, _, _, _, _, _, _)
\* PackGroup with the first character of the group in the least-significant slot
PackGroupLittleEndian(W, txt, start, j, cnt, k, b, rank, element) ==
    IF j >= cnt THEN element
    ELSE LET c      == At(txt, start + j)
             rank_c == Bits(rank[c], ShiftWidth(W))
             sh     == Shl(rank_c, b * j, ShiftWidth(W))
         IN  PackGroupLittleEndian(W, txt, start, j + 1, cnt, k, b, rank,
                                   Conv(BitOr(Conv(element, ShiftWidth(W)), sh), W))

RECURSIVE PackGroupRightAligned(_, _, _, _, _, _, _, _, _)
\* PackGroup with a short group in the least-significant slots of the element
PackGroupRightAligned(W, txt, start, j, cnt, k, b, rank, element) ==
    IF j >= cnt THEN element
    ELSE LET c      == At(txt, start + j)
             rank_c == Bits(rank[c], ShiftWidth(W))
             sh     == Shl(rank_c, b * (cnt - 1 - j), ShiftWidth(W))
         IN  PackGroupRightAligned(W, txt, start, j + 1, cnt, k, b, rank,
                                   Conv(BitOr(Conv(element, ShiftWidth(W)), sh), W))

RECURSIVE PackGroup(_, _, _, _, _, _, _, _, _)
\* the inner loop: element |= rank_c << (bits_per_char * (k - 1 - j)), j = from..cnt-1
PackGroup(W, txt, start, j, cnt, k, b, rank, element) ==
    IF j >= cnt THEN element
    ELSE LET c      == At(txt, start + j)
             rank_c == Bits(rank[c], ShiftWidth(W))
             sh     == Shl(rank_c, b * (k - 1 - j), ShiftWidth(W))
         IN  PackGroup(W, txt, start, j + 1, cnt, k, b, rank,
                       Conv(BitOr(Conv(element, ShiftWidth(W)), sh), W))

\* LastCount without the "- 1 ... + 1": an empty last group when k divides text_len
LastCountNoWrap(text_len, k) == text_len % k

\* number of characters the last-element loop reads
LastCount(text_len, k) == ((text_len - 1) % k) + 1

\* bitpack_text_8/16/32/64: they differ only in the element type
bitpack_text_W(W, txt, text_len, k, packed_len, rank, b) ==
    IF text_len = 0 THEN [i \in 1..packed_len |-> Bits(0, W)]
    ELSE [i \in 1..packed_len |->
            IF i - 1 < packed_len - 1
            THEN PackGroup(W, txt, (i - 1) * k, 0, k, k, b, rank, Bits(0, W))
            ELSE PackGroup(W, txt, k * (packed_len - 1), 0, LastCount(text_len, k),
                           k, b, rank, Bits(0, W))]

bitpack_text_8(txt, text_len, k, packed_len, rank, b) ==
    bitpack_text_W(8, txt, text_len, k, packed_len, rank, b)

bitpack_text_16(txt, text_len, k, packed_len, rank, b) ==
    bitpack_text_W(16, txt, text_len, k, packed_len, rank, b)

bitpack_text_32(txt, text_len, k, packed_len, rank, b) ==
    bitpack_text_W(32, txt, text_len, k, packed_len, rank, b)

bitpack_text_64(txt, text_len, k, packed_len, rank, b) ==
    bitpack_text_W(64, txt, text_len, k, packed_len, rank, b)

\* the text positions text[last_el_start + i] the last-element loop reads
LastElementReads(text_len, k, packed_len) ==
    IF text_len = 0 THEN {}
    ELSE {k * (packed_len - 1) + i : i \in 0..(LastCount(text_len, k) - 1)}

\* the call stack before libsais16x64 is called
ReturnIdle ==
    /\ stack = <<>>
    /\ ret = <<>>
    /\ ret_marks = 0
    /\ fail_depth = 0
    /\ blocks = 0

\* the engine before it is called
EngineIdle ==
    /\ T = <<>>
    /\ SA = <<>>
    /\ freq = <<>>
    /\ args = <<>>
    /\ SA0 = <<>>
    /\ freq0 = <<>>
    /\ buckets = <<>>
    /\ local_buffer = <<>>
    /\ frame = <<>>
    /\ frame32 = <<>>
    /\ heap = <<>>
    /\ index = 0
    /\ epc = "idle"

\* the text buffer as read_text returns it to the main of build_ssa
\* (src/main.c) or of the benchmark (benchmark_code/src/main.c)
TextBuf(driver) == [driver |-> driver, frees |-> 0, stale_reads |-> 0]

\* the text is read
ReadText(tb) == [tb EXCEPT !.stale_reads = IF tb.frees > 0 THEN @ + 1 ELSE @]

\* free(text)
FreeText(tb) == [tb EXCEPT !.frees = @ + 1]

\* the driver before it is run
DriverIdle ==
    /\ in_text = <<>>
    /\ dna = 0
    /\ factor = 0
    /\ ssa_optimized = <<>>
    /\ ssa_sampled = <<>>
    /\ dpc = "idle"
    /\ optimized = 1
    /\ packed_width = <<>>
    /\ engine_ret = <<>>
    /\ exit_status = <<>>
    /\ text_buf = TextBuf("build_ssa")

\* the output stage before it is run
OutIdle ==
    /\ sa = <<>>
    /\ sa_length = 0
    /\ orig_sa = <<>>
    /\ bits_per_element = 0
    /\ compressed = 0
    /\ out_factor = 0
    /\ file = <<>>
    /\ decompressed_sa = <<>>
    /\ opc = "idle"

\* the text in which every byte value occurs once, and the one without byte 255
AllBytes == [i \in 1..256 |-> i - 1]

AllBytesButOne == [i \in 1..255 |-> i - 1]

PackInit ==
    /\ EngineIdle
    /\ ReturnIdle
    /\ OutIdle
    /\ DriverIdle
    /\ text \in SeqsUpTo(PackBytes, MaxTextLen) \cup {AllBytes, AllBytesButOne}
    /\ sparseness_factor = 0
    /\ bits_per_char = 0
    /\ width = 0
    /\ char_to_rank = [c \in 0..255 |-> 0]
    /\ alphabet_size = 0
    /\ text_packed = <<>>
    /\ last_reads = {}
    /\ ppc = "start"

\* build_char_to_rank(text, text_len, &alphabet_size)
BuildRank ==
    /\ ppc = "start"
    /\ LET r == build_char_to_rank(text)
       IN  /\ char_to_rank' = r.tab
           /\ alphabet_size' = r.chars
    /\ ppc' = "ranked"
    /\ UNCHANGED <<text, sparseness_factor, bits_per_char, width, text_packed, last_reads>>
    /\ UNCHANGED NotPacker

\* bitpack_text_<W>(text, text_len, k, ceil(text_len / k), char_to_rank, b), called
\* as its contract asks: k * b <= W and every rank below 2^b
Pack ==
    /\ ppc = "ranked"
    /\ \E W \in Widths, k \in 1..MaxK, b \in 0..MaxB :
          /\ k * b <= W
          /\ \A i \in 1..Len(text) : char_to_rank[text[i]] < Pow2(b)
          /\ sparseness_factor' = k
          /\ bits_per_char' = b
          /\ width' = W
          /\ text_packed' =
                CASE W = 8  -> bitpack_text_8(text, Len(text), k, CeilDiv(Len(text), k), char_to_rank, b)
                  [] W = 16 -> bitpack_text_16(text, Len(text), k, CeilDiv(Len(text), k), char_to_rank, b)
                  [] W = 32 -> bitpack_text_32(text, Len(text), k, CeilDiv(Len(text), k), char_to_rank, b)
                  [] W = 64 -> bitpack_text_64(text, Len(text), k, CeilDiv(Len(text), k), char_to_rank, b)
          /\ last_reads' = LastElementReads(Len(text), k, CeilDiv(Len(text), k))
    /\ ppc' = "packed"
    /\ UNCHANGED <<text, char_to_rank, alphabet_size>>
    /\ UNCHANGED NotPacker

PackNext == BuildRank \/ Pack

SpecPack == PackInit /\ [][PackNext]_vars

(***************************************************************************)
(* Claims about the bit-packer.                                            *)
(***************************************************************************)
RECURSIVE PackSum(_, _, _, _, _, _)
\* sum over j in [0, cnt) of rank(txt[start + j]) * 2^(b * (k - 1 - j))
PackSum(txt, start, cnt, k, b, rank) ==
    IF cnt = 0 THEN 0
    ELSE rank[At(txt, start + cnt - 1)] * Pow2(b * (k - cnt))
         + PackSum(txt, start, cnt - 1, k, b, rank)

PackedLen == CeilDiv(Len(text), sparseness_factor)

\* C6: every full group i < packed_len - 1 is packed big-endian:
\* packed[i] = sum over j in [0,k) of rank(text[i*k + j]) * 2^(b*(k-1-j)).
C6_FullGroupsBigEndian ==
    ppc = "packed" =>
        \A i \in 0..(PackedLen - 2) :
            At(text_packed, i) =
                Bits(PackSum(text, i * sparseness_factor, sparseness_factor,
                             sparseness_factor, bits_per_char, char_to_rank), width)

\* a full group whose first character has a non-zero rank, packed at the width
\* that k * b fills exactly
C6_Witness ==
    /\ ppc = "packed"
    /\ PackedLen >= 2
    /\ sparseness_factor >= 2
    /\ sparseness_factor * bits_per_char = width
    /\ char_to_rank[At(text, 0)] >= 2
    /\ At(text_packed, 0)[width - 1] = 1

\* C7: for n >= 1 the last packed symbol is the sum over the r = ((n-1) mod k) + 1
\* characters of the tail, exactly the positions [(packed_len-1)*k, n) are read,
\* and the k - r least-significant b-bit slots are zero.
C7_LastSymbol ==
    (ppc = "packed" /\ Len(text) >= 1) =>
        LET k    == sparseness_factor
            r    == ((Len(text) - 1) % k) + 1
            last == At(text_packed, PackedLen - 1)
        IN  /\ last = Bits(PackSum(text, (PackedLen - 1) * k, r, k, bits_per_char,
                                   char_to_rank), width)
            /\ last_reads = {p \in 0..(Len(text) - 1) : p >= (PackedLen - 1) * k}
            /\ \A p \in 0..((k - r) * bits_per_char - 1) : last[p] = 0

\* a short tail (k does not divide n) after at least one full group, the tail
\* packing to a non-zero symbol
C7_Witness ==
    /\ ppc = "packed"
    /\ Len(text) % sparseness_factor # 0
    /\ PackedLen >= 2
    /\ bits_per_char >= 1
    /\ \E p \in 0..(width - 1) : At(text_packed, PackedLen - 1)[p] = 1

\* the byte values that occur in text
Present == {text[i] : i \in 1..Len(text)}

\* char_to_rank maps the present bytes onto [0, sigma), in increasing order
RankBijection ==
    /\ {char_to_rank[c] : c \in Present} = 0..(Cardinality(Present) - 1)
    /\ \A c, d \in Present : c < d => char_to_rank[c] < char_to_rank[d]

\* C19: for every text, one in which all 256 byte values occur included,
\* build_char_to_rank stores in *alphabet_size the number sigma of distinct
\* bytes present, and char_to_rank restricted to the present bytes is the
\* strictly increasing bijection onto [0, sigma)
C19_RankTable ==
    ppc \in {"ranked", "packed"} =>
        /\ alphabet_size = Cardinality(Present)
        /\ RankBijection

\* the same for the texts in which at most 255 byte values occur; with all 256
\* the table is still the bijection
RankTableBelow256 ==
    ppc \in {"ranked", "packed"} =>
        /\ Cardinality(Present) < 256 => alphabet_size = Cardinality(Present)
        /\ RankBijection

\* the table of the text with 255 distinct bytes has been built
RankedAllButOne ==
    /\ ppc = "ranked"
    /\ text = AllBytesButOne
    /\ alphabet_size = 255

\* the table of the text with all 256 bytes has been built: the uint8_t counter
\* has wrapped
RankedAllBytes ==
    /\ ppc = "ranked"
    /\ text = AllBytes
    /\ alphabet_size = 0
    /\ char_to_rank[255] = 255

(***************************************************************************)
(* main.c: compress_sa, decompress_sa, write_sa                            *)
(***************************************************************************)
\* the packer before it is run
PackIdle ==
    /\ text = <<>>
    /\ sparseness_factor = 0
    /\ bits_per_char = 0
    /\ width = 0
    /\ char_to_rank = <<>>
    /\ alphabet_size = 0
    /\ text_packed = <<>>
    /\ last_reads = {}
    /\ ppc = "idle"

RECURSIVE FloorLog2(_)
\* (uint8_t) log2(x) for x >= 1: the double is truncated toward zero
FloorLog2(x) == IF x < 2 THEN 0 ELSE 1 + FloorLog2(x \div 2)

\* FloorLog2 rounding up instead: the smallest e with 2^e >= x
CeilLog2(x) == IF x <= 1 THEN 0 ELSE FloorLog2(x - 1) + 1

\* BitsPerElement without the "+ 1"
BitsPerElementNoPlusOne(len, k, comp) ==
    IF comp > 0 THEN FloorLog2(len * k) % 256 ELSE 64

\* write_sa's uint8_t bits_per_element: 64, or (uint8_t) log2(sa_length * k) + 1
BitsPerElement(len, k, comp) ==
    IF comp > 0 THEN ((FloorLog2(len * k) % 256) + 1) % 256 ELSE 64

RECURSIVE CompressLoop(_, _, _, _, _, _, _)
\* the loop of compress_sa and the two statements after it; element is an
\* int64_t, shift an int8_t, buf the array compressed in place
CompressLoop(buf, i, len, b, element, shift, ci) ==
    IF i >= len
    THEN [sa |-> Put(buf, ci, element), sa_length |-> ci + 1]
    ELSE IF shift < 0
         THEN LET e1   == BitOr(element, Shr(At(buf, i), -shift, 64))
                  buf1 == Put(buf, ci, e1)
                  sh1  == shift + 64
              IN  CompressLoop(buf1, i + 1, len, b, Shl(At(buf1, i), sh1, 64),
                               sh1 - b, ci + 1)
         ELSE CompressLoop(buf, i + 1, len, b,
                           BitOr(element, Shl(At(buf, i), shift, 64)), shift - b, ci)

\* compress_sa(sa, &sa_length, bits_per_element)
compress_sa(buf, len, b) == CompressLoop(buf, 0, len, b, Bits(0, 64), 64 - b, 0)

RECURSIVE DecompressLoop(_, _, _, _, _, _, _)
\* the loop of decompress_sa; out starts as the malloc'ed block, whose words are
\* not initialised, and every entry is or-ed into it
DecompressLoop(out, i, len, b, buf, start, ci) ==
    IF i >= len THEN out
    ELSE LET v1  == BitOr(At(out, i), Shr(Shl(At(buf, ci), start, 64), 64 - b, 64))
             st1 == start + b
         IN  IF st1 >= 64
             THEN LET st2 == st1 - 64
                      v2  == IF st2 > 0
                             THEN BitOr(v1, Shr(At(buf, ci + 1), 64 - st2, 64))
                             ELSE v1
                  IN  DecompressLoop(Put(out, i, v2), i + 1, len, b, buf, st2, ci + 1)
             ELSE DecompressLoop(Put(out, i, v1), i + 1, len, b, buf, st1, ci)

\* decompress_sa(sa, orig_sa_length, bits_per_element); block is what malloc returned
decompress_sa(buf, orig_len, b, block) == DecompressLoop(block, 0, orig_len, b, buf, 0, 0)

\* write_sa that stores sa_length in the header after compressing
write_sa_length_after(k, buf, len, comp) ==
    LET b == BitsPerElement(len, k, comp)
        c == IF comp > 0 THEN compress_sa(buf, len, b) ELSE [sa |-> buf, sa_length |-> len]
    IN  [file |-> << [size |-> 1, data |-> <<b>>],
                     [size |-> 1, data |-> <<k>>],
                     [size |-> 8, data |-> <<c.sa_length>>],
                     [size |-> 8, data |-> SubSeq(c.sa, 1, c.sa_length)] >>,
         sa |-> c.sa, sa_length |-> c.sa_length, bits_per_element |-> b]

\* write_sa once the output file is open: the four fwrite calls, in order
write_sa(k, buf, len, comp) ==
    LET b == BitsPerElement(len, k, comp)
        c == IF comp > 0 THEN compress_sa(buf, len, b) ELSE [sa |-> buf, sa_length |-> len]
    IN  [file |-> << [size |-> 1, data |-> <<b>>],
                     [size |-> 1, data |-> <<k>>],
                     [size |-> 8, data |-> <<len>>],
                     [size |-> 8, data |-> SubSeq(c.sa, 1, c.sa_length)] >>,
         sa |-> c.sa, sa_length |-> c.sa_length, bits_per_element |-> b]

\* orders in which the driver can deliver the positions 0, k, ..., (len-1)*k:
\* increasing (a strictly increasing text), decreasing (a text of one repeated
\* character) and even ranks before odd ones
SaOrders(len, k) ==
    { [i \in 1..len |-> Bits((i - 1) * k, 64)],
      [i \in 1..len |-> Bits((len - i) * k, 64)],
      [i \in 1..len |-> Bits((IF 2 * (i - 1) < len THEN 2 * (i - 1)
                                ELSE 2 * (i - 1 - CeilDiv(len, 2)) + 1) * k, 64)] }

\* main() has built sa (sa_length >= 1 entries) and is about to call write_sa
WriteInit ==
    /\ EngineIdle
    /\ ReturnIdle
    /\ PackIdle
    /\ DriverIdle
    /\ sa_length \in 1..MaxSaLen
    /\ out_factor \in 1..MaxFactor
    /\ compressed \in {0, 1}
    /\ sa \in SaOrders(sa_length, out_factor)
    /\ orig_sa = sa
    /\ bits_per_element = 0
    /\ file = <<>>
    /\ decompressed_sa = <<>>
    /\ opc = "built"

\* write_sa(output_fn, sparseness_factor, sa, sa_length, compressed), fopen succeeding
WriteSa ==
    /\ opc = "built"
    /\ LET w == write_sa(out_factor, sa, sa_length, compressed)
       IN  /\ file' = w.file
           /\ sa' = w.sa
           /\ sa_length' = w.sa_length
           /\ bits_per_element' = w.bits_per_element
    /\ opc' = "written"
    /\ UNCHANGED <<orig_sa, compressed, out_factor, decompressed_sa>>
    /\ UNCHANGED NotOutput

\* write_sa when fopen returns NULL: free(sa); exit(1); nothing is written
WriteSaOpenFails ==
    /\ opc = "built"
    /\ sa' = <<>>
    /\ opc' = "exit"
    /\ UNCHANGED <<sa_length, orig_sa, bits_per_element, compressed, out_factor, file,
                   decompressed_sa>>
    /\ UNCHANGED NotOutput

WriteNext == WriteSa \/ WriteSaOpenFails

SpecWrite == WriteInit /\ [][WriteNext]_vars

\* widths tried for direct calls of compress_sa / decompress_sa
RoundTripWidths == {1, 7, 21, 32, 33, 63}

\* the entries below 2^b tried at width b: 0, 1, 2^(b-1) and 2^b - 1
EntriesBelow(b) ==
    { Bits(0, 64), Bits(1, 64),
      [p \in 0..63 |-> IF p = b - 1 THEN 1 ELSE 0],
      [p \in 0..63 |-> IF p < b THEN 1 ELSE 0] }

\* what a word of a malloc'ed block may hold
GarbageWords == { Bits(0, 64), [p \in 0..63 |-> 1] }

\* an array of L >= 1 entries below 2^b
RoundTripInit ==
    /\ EngineIdle
    /\ ReturnIdle
    /\ PackIdle
    /\ DriverIdle
    /\ bits_per_element \in RoundTripWidths
    /\ sa_length \in 1..MaxArrLen
    /\ sa \in [1..sa_length -> EntriesBelow(bits_per_element)]
    /\ orig_sa = sa
    /\ compressed = 1
    /\ out_factor = 0
    /\ file = <<>>
    /\ decompressed_sa = <<>>
    /\ opc = "array"

\* compress_sa(sa, &sa_length, bits_per_element)
CompressSa ==
    /\ opc = "array"
    /\ LET c == compress_sa(sa, sa_length, bits_per_element)
       IN  /\ sa' = c.sa
           /\ sa_length' = c.sa_length
    /\ opc' = "compressed"
    /\ UNCHANGED <<orig_sa, bits_per_element, compressed, out_factor, file, decompressed_sa>>
    /\ UNCHANGED NotOutput

\* decompress_sa(sa, orig_sa_length, bits_per_element): malloc gives a block of
\* orig_sa_length words holding whatever the heap held
DecompressSa ==
    /\ opc = "compressed"
    /\ \E block \in [1..Len(orig_sa) -> GarbageWords] :
          decompressed_sa' = decompress_sa(sa, Len(orig_sa), bits_per_element, block)
    /\ opc' = "decompressed"
    /\ UNCHANGED <<sa, sa_length, orig_sa, bits_per_element, compressed, out_factor, file>>
    /\ UNCHANGED NotOutput

RoundTripNext == CompressSa \/ DecompressSa

SpecRoundTrip == RoundTripInit /\ [][RoundTripNext]_vars

\* the value of the i-th packed symbol; a packed symbol has at most
\* MaxK * MaxB bits that are not zero
PackedValue(i) == BitsVal(text_packed[i], IF width > 31 THEN 31 ELSE width)

\* the text has been packed and its last group is a short one
ShortTail == ppc = "packed" /\ Len(text) % sparseness_factor # 0

\* the full group i starts with characters of the ranks of the tail's
SamePrefix(i) ==
    \A j \in 0..(LastCount(Len(text), sparseness_factor) - 1) :
        char_to_rank[At(text, (i - 1) * sparseness_factor + j)] =
            char_to_rank[At(text, (Len(text_packed) - 1) * sparseness_factor + j)]

\* the characters of the full group i past that prefix all have rank 0
RestIsRankZero(i) ==
    \A j \in LastCount(Len(text), sparseness_factor)..(sparseness_factor - 1) :
        char_to_rank[At(text, (i - 1) * sparseness_factor + j)] = 0

\* C25: whenever n is not a multiple of k, the final packed symbol is strictly
\* smaller than every full packed symbol whose first ((n - 1) mod k) + 1
\* characters have the ranks of the tail's characters, for every rank table
\* build_char_to_rank produces
C25_TailSmaller ==
    ShortTail =>
        \A i \in 1..(Len(text_packed) - 1) :
            SamePrefix(i) => PackedValue(Len(text_packed)) < PackedValue(i)

\* C25 as the code has it: the final packed symbol is never greater than such
\* a full symbol, and equals it exactly when the rest of the full group has
\* rank 0, the rank of the smallest byte of the text
C25_TailNotGreater ==
    ShortTail =>
        \A i \in 1..(Len(text_packed) - 1) :
            SamePrefix(i) =>
                /\ PackedValue(Len(text_packed)) <= PackedValue(i)
                /\ PackedValue(Len(text_packed)) = PackedValue(i) <=> RestIsRankZero(i)

\* a short tail of two characters and a full group that goes on with a
\* character of another rank than 0
C25_Witness ==
    /\ ShortTail
    /\ LastCount(Len(text), sparseness_factor) = 2
    /\ \E i \in 1..(Len(text_packed) - 1) : SamePrefix(i) /\ ~RestIsRankZero(i)

\* a short tail and a full group that goes on with the smallest byte only
TailEqualsFullSymbol ==
    /\ ShortTail
    /\ bits_per_char > 0
    /\ alphabet_size > 1
    /\ \E i \in 1..(Len(text_packed) - 1) : SamePrefix(i) /\ RestIsRankZero(i)

(***************************************************************************)
(* Claims about the output stage.                                          *)
(***************************************************************************)
\* C8: decompress_sa(compress_sa(SA, b), L, b) returns the L original entries,
\* for every array of length L >= 1 whose entries are below 2^b.
C8_RoundTrip ==
    opc = "decompressed" => decompressed_sa = orig_sa

\* the bits_per_element byte of the file
FileBits == file[1].data[1]

StreamBit(words, P) == At(words, P \div 64)[63 - (P % 64)]

\* C10: write_sa emits 1 byte bits_per_element, 1 byte sparseness_factor, the
\* 8-byte number of entries before compression, then sa_length raw words or
\* ceil(sa_length * bits_per_element / 64) words holding the entries back to
\* back, most-significant bits first.
C10_FileLayout ==
    opc = "written" =>
        LET n == Len(orig_sa)
            b == bits_per_element
        IN  /\ Len(file) = 4
            /\ file[1].size = 1 /\ file[1].data = <<b>>
            /\ file[2].size = 1 /\ file[2].data = <<out_factor>>
            /\ file[3].size = 8 /\ file[3].data = <<n>>
            /\ file[4].size = 8
            /\ IF compressed = 0
               THEN file[4].data = orig_sa
               ELSE /\ Len(file[4].data) = CeilDiv(n * b, 64)
                    /\ \A e \in 0..(n - 1), q \in 0..(b - 1) :
                          StreamBit(file[4].data, e * b + q) = At(orig_sa, e)[b - 1 - q]

\* a compressed payload of two words with an entry lying across them
C10_Witness ==
    /\ opc = "written"
    /\ compressed = 1
    /\ Len(file[4].data) = 2
    /\ 64 % bits_per_element # 0
    /\ Len(orig_sa) > 2

(***************************************************************************)
(* main.c: main, build_sa_optimized, build_sa.  The calls                  *)
(* bitpack_text_N(text, length, sparseness_factor, sa_length, dna) are     *)
(* those of benchmark_code/src/bitpacking.c, which ranks a byte with       *)
(* get_rank / get_rank_dna.  libsais64 and libsais32x64 are not part of    *)
(* the sources; they are modelled by the contract of the engine: the       *)
(* suffix array of a text over [0, K).                                     *)
(***************************************************************************)
\* bits per protein character
BITS_PER_CHAR == 5

\* bits per DNA character
BITS_PER_CHAR_DNA == 2

\* 'A', 'C', 'G', 'T'
DnaBytes == {65, 67, 71, 84}

\* the protein letters the modelled texts use: 'A', 'L' and 'Z'
ProteinBytes == {65, 76, 90}

\* the values of -s the driver is run with
Factors == {1, 2, 3, 4, 5, 6, 7, 8, 16}

\* uint8_t get_rank(uint8_t c)
get_rank(c) == IF c = 36 THEN 0 ELSE IF c = 45 THEN 1 ELSE (2 + (c - 65)) % 256

\* uint8_t get_rank_dna(uint8_t c): no value is returned for any other byte
get_rank_dna(c) ==
    CASE c = 36 -> 0
      [] c = 65 -> 0
      [] c = 67 -> 1
      [] c = 71 -> 2
      [] c = 84 -> 3

\* rank_c = dna == 0 ? get_rank(c) : get_rank_dna(c), as a table over the bytes
RankOf(d) ==
    IF d = 0 THEN [c \in 0..255 |-> get_rank(c)]
    ELSE [c \in {36, 65, 67, 71, 84} |-> get_rank_dna(c)]

\* bits_per_char = dna > 0 ? BITS_PER_CHAR_DNA : BITS_PER_CHAR
BitsPerChar(d) == IF d > 0 THEN BITS_PER_CHAR_DNA ELSE BITS_PER_CHAR

\* bitpack_text_8/16/32(text, text_len, sparseness_factor, packed_len, dna)
bitpack_text_dna(W, txt, text_len, k, packed_len, d) ==
    IF text_len = 0 THEN [i \in 1..packed_len |-> Bits(0, W)]
    ELSE [i \in 1..packed_len |->
            IF i - 1 < packed_len - 1
            THEN PackGroup(W, txt, (i - 1) * k, 0, k, k, BitsPerChar(d), RankOf(d), Bits(0, W))
            ELSE PackGroup(W, txt, k * (packed_len - 1), 0, LastCount(text_len, k),
                           k, BitsPerChar(d), RankOf(d), Bits(0, W))]

RECURSIVE SuffixLess(_, _, _)
\* X[p..) < X[q..): a proper prefix is smaller (virtual sentinel)
SuffixLess(X, p, q) ==
    IF p = q THEN FALSE
    ELSE IF p >= Len(X) THEN TRUE
    ELSE IF q >= Len(X) THEN FALSE
    ELSE IF At(X, p) < At(X, q) THEN TRUE
    ELSE IF At(X, p) > At(X, q) THEN FALSE
    ELSE SuffixLess(X, p + 1, q + 1)

\* the contract of the engine: entry i is the suffix with i smaller suffixes
SuffixArray(X) ==
    [i \in 1..Len(X) |->
        CHOOSE p \in 0..(Len(X) - 1) :
            Cardinality({q \in 0..(Len(X) - 1) : SuffixLess(X, q, p)}) = i - 1]

\* a packed symbol read as the int32_t the 32-bit engine sees
Int32Val(v) ==
    IF v[31] = 1 THEN (BitsVal(v, 31) - Pow2Tab[30]) - Pow2Tab[30] ELSE BitsVal(v, 31)

\* libsais64(text, sa, n, 0, NULL) on an array of bytes
libsais64(X, n) == SuffixArray(SubSeq(X, 1, n))

\* libsais16x64(packed_text, sa, n, 0, NULL) on an array of uint16_t: what the engine
\* specification establishes for a return of 0
libsais16x64_sa(X, n) == SuffixArray(SubSeq(X, 1, n))

\* what an engine leaves in SA when its text is not over [0, alphabet)
Unspecified(n) == [1..n -> 0..(n - 1)]

\* libsais32x64(packed_text, sa, n, 1 << required_bits, 0, NULL) on an array of int32_t
libsais32x64(X, n, alphabet) ==
    IF \A i \in 1..n : 0 <= X[i] /\ X[i] < alphabet
    THEN {SuffixArray(SubSeq(X, 1, n))}
    ELSE Unspecified(n)

\* the values `1 << required_bits` can take: the left operand is an int, so a
\* shift by 31 or more is undefined (the count is masked, or the bit is lost)
ShiftOne(required_bits) ==
    IF required_bits <= 30 THEN {Pow2Tab[required_bits]} ELSE {0, 1}

\* the contents of the malloc'ed sa when no engine has written it: a word of it
\* is zero or what an earlier use of the block left, here a word with bit 24 set
Uninitialised(n) == [1..n -> {0, Pow2Tab[24]}]

\* ScaleSa that multiplies nothing
ScaleSaSkipped(buf, k) == buf

\* if (sparseness_factor > 1) sa[i] *= sparseness_factor
ScaleSa(buf, k) == IF k > 1 THEN [i \in 1..Len(buf) |-> buf[i] * k] ELSE buf

\* the branch build_sa_optimized takes: the W of the bitpack_text_W it calls, 0
\* when it calls no packer (k = 1, or "Alphabet too big")
PackedWidth(k, d) ==
    LET required_bits == BitsPerChar(d) * k
    IN  IF k = 1 THEN 0
        ELSE IF required_bits <= 8 THEN 8
        ELSE IF required_bits <= 16 THEN 16
        ELSE IF required_bits <= 32 THEN 32
        ELSE 0

\* build_sa_optimized: the arrays it can return
build_sa_optimized(txt, length, k, len, d) ==
    LET required_bits == BitsPerChar(d) * k
        built ==
            IF k = 1 THEN {libsais64(txt, len)}
            ELSE IF required_bits <= 8
            THEN LET packed == bitpack_text_dna(8, txt, length, k, len, d)
                 IN  {libsais64([i \in 1..len |-> BitsVal(packed[i], 8)], len)}
            ELSE IF required_bits <= 16
            THEN LET packed == bitpack_text_dna(16, txt, length, k, len, d)
                 IN  {libsais16x64_sa([i \in 1..len |-> BitsVal(packed[i], 16)], len)}
            ELSE IF required_bits <= 32
            THEN LET packed == bitpack_text_dna(32, txt, length, k, len, d)
                 IN  UNION {libsais32x64([i \in 1..len |-> Int32Val(packed[i])], len, alphabet) :
                               alphabet \in ShiftOne(required_bits)}
            ELSE Uninitialised(len)
    IN  {ScaleSa(b, k) : b \in built}

\* the sampling loop of build_sa: the entries divisible by k are moved to the
\* front of the array, the rest of it is left as it was
SampleSa(full, length, k) ==
    LET kept == SelectSeq(full, LAMBDA x : x % k = 0)
    IN  IF k > 1 THEN kept \o SubSeq(full, Len(kept) + 1, length) ELSE full

\* build_sa: the full suffix array, sampled in place
build_sa(txt, length, k) == SampleSa(libsais64(txt, length), length, k)

\* translate_L_to_I
translate_L_to_I(txt) == [i \in 1..Len(txt) |-> IF txt[i] = 76 THEN 73 ELSE txt[i]]

RECURSIVE Repeat(_, _)
\* the text of length len that repeats seed
Repeat(seed, len) ==
    IF len <= Len(seed) THEN SubSeq(seed, 1, len)
    ELSE seed \o Repeat(seed, len - Len(seed))

\* the lengths of the periodic texts
LongLens == {2 * MaxShortLen + 1, MaxLongLen - 1, MaxLongLen}

\* the texts the driver is run on
Texts(alphabet) ==
    SeqsUpTo(alphabet, MaxShortLen)
        \cup {Repeat(seed, len) : seed \in SeqsUpTo(alphabet, MaxSeedLen) \ {<<>>},
                                  len \in LongLens}

\* the bytes of "ACGTACGT"
AcgtacgtBytes == <<65, 67, 71, 84, 65, 67, 71, 84>>

DriverInit ==
    /\ EngineIdle
    /\ ReturnIdle
    /\ PackIdle
    /\ OutIdle
    /\ dna \in {0, 1}
    /\ in_text \in IF dna > 0 THEN Texts(DnaBytes) \cup {AcgtacgtBytes}
                   ELSE Texts(ProteinBytes)
    /\ factor \in Factors
    /\ ssa_optimized = <<>>
    /\ ssa_sampled = <<>>
    /\ dpc = "read"
    /\ optimized = 1
    /\ packed_width = <<>>
    /\ engine_ret = <<>>
    /\ exit_status = <<>>
    /\ text_buf = TextBuf("build_ssa")

\* main: if (dna <= 0) translate_L_to_I(text, length)
Translate ==
    /\ dpc = "read"
    /\ text_buf.driver = "build_ssa"
    /\ in_text' = IF dna <= 0 THEN translate_L_to_I(in_text) ELSE in_text
    /\ dpc' = "translated"
    /\ UNCHANGED <<dna, factor, ssa_optimized, ssa_sampled>>
    /\ UNCHANGED <<optimized, packed_width, engine_ret, exit_status, text_buf>>
    /\ UNCHANGED NotDriver

\* main without -u: sa = build_sa_optimized(text, length, sparseness_factor, sa_length, dna)
BuildSaOptimized ==
    /\ dpc = "translated"
    /\ \E out \in build_sa_optimized(in_text, Len(in_text), factor,
                                      CeilDiv(Len(in_text), factor), dna) :
          ssa_optimized' = out
    /\ packed_width' = <<PackedWidth(factor, dna)>>
    /\ dpc' = "optimized"
    /\ UNCHANGED <<in_text, dna, factor, ssa_sampled, optimized, engine_ret, exit_status,
                   text_buf>>
    /\ UNCHANGED NotDriver

\* main with -u on the same input: sa = build_sa(text, length, sparseness_factor),
\* of which write_sa is handed the first sa_length entries
BuildSa ==
    /\ dpc = "optimized"
    /\ ssa_sampled' = SubSeq(build_sa(in_text, Len(in_text), factor), 1,
                             CeilDiv(Len(in_text), factor))
    /\ dpc' = "done"
    /\ UNCHANGED <<in_text, dna, factor, ssa_optimized>>
    /\ UNCHANGED <<optimized, packed_width, engine_ret, exit_status, text_buf>>
    /\ UNCHANGED NotDriver

DriverNext == Translate \/ BuildSaOptimized \/ BuildSa

SpecDriver == DriverInit /\ [][DriverNext]_vars

(***************************************************************************)
(* Claims about the two pipelines.                                         *)
(***************************************************************************)
\* C3: for every k > 1 with k * b <= 32 the entries build_sa_optimized returns
\* equal, position by position, the entries of the full suffix array that are
\* divisible by k, in suffix-array order.
C3_OptimizedEqualsSampled ==
    (dpc = "done" /\ factor > 1 /\ factor * BitsPerChar(dna) <= 32)
        => ssa_optimized = ssa_sampled

\* the same with k * b < 32, where `1 << required_bits` is defined
OptimizedEqualsSampledBelow32 ==
    (dpc = "done" /\ factor > 1 /\ factor * BitsPerChar(dna) < 32)
        => ssa_optimized = ssa_sampled

\* the smallest W of the four packer widths with need <= W
SmallestWidth(need) ==
    CHOOSE W \in Widths : need <= W /\ \A V \in Widths : need <= V => W <= V

\* the packed text at width W as a sequence of unsigned symbols; a symbol of 32
\* or 64 bits is read through its low 31 bits, which hold all of it when
\* k * b <= 31
PackedSymbols(W) ==
    LET len    == CeilDiv(Len(in_text), factor)
        packed == bitpack_text_dna(W, in_text, Len(in_text), factor, len, dna)
    IN  [i \in 1..len |-> BitsVal(packed[i], IF W > 31 THEN 31 ELSE W)]

\* C14: for k in [2, 8] and b in {2, 5} build_sa_optimized packs at the smallest
\* W in {8, 16, 32, 64} with k * b <= W and returns the suffix array of the packed
\* sequence (scaled by k); for k = 1 it packs nothing, scales nothing and
\* returns the suffix array of the bytes.
C14_SmallestWidth ==
    dpc = "done" =>
        /\ factor \in 2..8 =>
              /\ packed_width = <<SmallestWidth(factor * BitsPerChar(dna))>>
              /\ ssa_optimized = ScaleSa(SuffixArray(PackedSymbols(packed_width[1])), factor)
        /\ factor = 1 =>
              /\ packed_width = <<0>>
              /\ ssa_optimized = SuffixArray(in_text)

\* the same for the k with k * b <= 32, the widths build_sa_optimized has a
\* branch for
SmallestWidthUpTo32 ==
    (dpc = "done" /\ factor * BitsPerChar(dna) <= 32) =>
        /\ factor \in 2..8 =>
              /\ packed_width = <<SmallestWidth(factor * BitsPerChar(dna))>>
              /\ ssa_optimized = ScaleSa(SuffixArray(PackedSymbols(packed_width[1])), factor)
        /\ factor = 1 =>
              /\ packed_width = <<0>>
              /\ ssa_optimized = SuffixArray(in_text)

\* a protein text built with k = 6: 30 bits, packed in 32
PackedIn32 ==
    /\ dpc = "done"
    /\ dna = 0
    /\ factor = 6
    /\ packed_width = <<32>>
    /\ Len(in_text) > 12

\* "ACGTACGT" has been built in DNA mode with k = 2
AcgtBuilt ==
    /\ dpc = "done"
    /\ dna = 1
    /\ factor = 2
    /\ in_text = AcgtacgtBytes

\* C18 as stated: for "ACGTACGT" in DNA mode with k = 2 the packed sequence is
\* [1,11,1,11] and the output of the optimized pipeline is [0,4,2,6]
C18_PackedExample ==
    AcgtBuilt =>
        /\ PackedSymbols(packed_width[1]) = <<1, 11, 1, 11>>
        /\ ssa_optimized = <<0, 4, 2, 6>>

\* C18 amended: the packed sequence is [1,11,1,11], its suffix array is
\* [2,0,3,1], and the output of the optimized pipeline is [4,0,6,2], the even
\* entries of the full suffix array [4,0,5,1,6,2,7,3] in their order
C18_PackedExampleAmended ==
    AcgtBuilt =>
        /\ packed_width = <<8>>
        /\ PackedSymbols(8) = <<1, 11, 1, 11>>
        /\ SuffixArray(PackedSymbols(8)) = <<2, 0, 3, 1>>
        /\ ssa_optimized = <<4, 0, 6, 2>>
        /\ ssa_sampled = <<4, 0, 6, 2>>

\* the example has been built by both pipelines
C18_Witness ==
    /\ AcgtBuilt
    /\ Len(ssa_optimized) = 4
    /\ Len(ssa_sampled) = 4

(***************************************************************************)
(* main.c: main, from the built text to the exit of the process.  The      *)
(* suffix array construction call returns 0, -1 (a NULL packed text) or    *)
(* -2 (an allocation of the engine failed); after a failure the array      *)
(* holds what malloc left in it.                                           *)
(***************************************************************************)
\* the texts main is run on
MainTexts(alphabet) == SeqsUpTo(alphabet, MaxMainLen) \ {<<>>}

\* what the construction call of build_sa_optimized can return: -1 only for a
\* packed text, which is NULL when calloc failed in bitpack_text_W
OptimizedReturns(k, d) ==
    IF k = 1 THEN {0, 0 - 2}
    ELSE IF PackedWidth(k, d) > 0 THEN {0, 0 - 1, 0 - 2}
    ELSE {}

\* what libsais64(text, sa, length, 0, NULL) can return in build_sa
SampledReturns == {0, 0 - 2}

MainInit ==
    /\ EngineIdle
    /\ ReturnIdle
    /\ PackIdle
    /\ dna \in {0, 1}
    /\ in_text \in MainTexts(IF dna > 0 THEN DnaBytes ELSE ProteinBytes)
    /\ factor \in Factors
    /\ optimized \in {0, 1}
    /\ compressed \in {0, 1}
    /\ ssa_optimized = <<>>
    /\ ssa_sampled = <<>>
    /\ packed_width = <<>>
    /\ engine_ret = <<>>
    /\ exit_status = <<>>
    /\ text_buf \in {TextBuf("build_ssa"), TextBuf("benchmark")}
    /\ dpc = "read"
    /\ sa = <<>>
    /\ sa_length = 0
    /\ orig_sa = <<>>
    /\ bits_per_element = 0
    /\ out_factor = 0
    /\ file = <<>>
    /\ decompressed_sa = <<>>
    /\ opc = "idle"

\* the benchmark's main has no translate_L_to_I
BenchRead ==
    /\ dpc = "read"
    /\ text_buf.driver = "benchmark"
    /\ dpc' = "translated"
    /\ UNCHANGED <<in_text, dna, factor, ssa_optimized, ssa_sampled>>
    /\ UNCHANGED <<optimized, packed_width, engine_ret, exit_status, text_buf>>
    /\ UNCHANGED NotDriver

\* the reads and the frees of text in build_sa_optimized or in build_sa and
\* after it: build_sa_optimized frees text after libsais64 (k = 1) or after
\* packing it, and not at all when the alphabet is too big; the main of
\* build_ssa frees it after build_sa, the benchmark's does not
BuildFrees(tb, opt, k, d) ==
    IF opt > 0
    THEN (IF k = 1 \/ PackedWidth(k, d) > 0 THEN FreeText(ReadText(tb)) ELSE tb)
    ELSE (IF tb.driver = "build_ssa" THEN FreeText(ReadText(tb)) ELSE ReadText(tb))

\* main, lines 286-297: sa_length is computed and build_sa_optimized or build_sa
\* is called; the value the construction call returns is not looked at
MainBuildSa ==
    /\ dpc = "translated"
    /\ LET len == CeilDiv(Len(in_text), factor)
       IN  /\ sa_length' = len
           /\ IF optimized > 0
              THEN /\ packed_width' = <<PackedWidth(factor, dna)>>
                   /\ \/ \E r \in OptimizedReturns(factor, dna) :
                            /\ engine_ret' = <<r>>
                            /\ ssa_optimized' \in
                                  IF r = 0
                                  THEN build_sa_optimized(in_text, Len(in_text), factor, len, dna)
                                  ELSE {ScaleSa(b, factor) : b \in Uninitialised(len)}
                      \/ /\ OptimizedReturns(factor, dna) = {}
                         /\ engine_ret' = <<>>
                         /\ ssa_optimized' \in {ScaleSa(b, factor) : b \in Uninitialised(len)}
                   /\ UNCHANGED ssa_sampled
              ELSE /\ \E r \in SampledReturns :
                         /\ engine_ret' = <<r>>
                         /\ ssa_sampled' \in
                               IF r = 0
                               THEN {build_sa(in_text, Len(in_text), factor)}
                               ELSE {SampleSa(b, Len(in_text), factor) :
                                        b \in Uninitialised(Len(in_text))}
                   /\ UNCHANGED <<ssa_optimized, packed_width>>
    /\ text_buf' = BuildFrees(text_buf, optimized, factor, dna)
    /\ dpc' = "built"
    /\ UNCHANGED <<in_text, dna, factor, optimized, exit_status>>
    /\ UNCHANGED <<sa, orig_sa, bits_per_element, compressed, out_factor, file,
                   decompressed_sa, opc>>
    /\ UNCHANGED <<pvars, evars, rvars>>

\* allocate_sa, or the malloc of build_sa, returns NULL: exit(1)
MainAllocateSaFails ==
    /\ dpc = "translated"
    /\ exit_status' = <<1>>
    /\ text_buf' = IF optimized > 0 THEN text_buf ELSE FreeText(text_buf)
    /\ dpc' = "exit"
    /\ UNCHANGED <<in_text, dna, factor, ssa_optimized, ssa_sampled, optimized,
                   packed_width, engine_ret>>
    /\ UNCHANGED NotDriver

\* the array main hands to write_sa, as uint64_t words
BuiltSa ==
    LET built == IF optimized > 0 THEN ssa_optimized ELSE ssa_sampled
    IN  [i \in 1..sa_length |-> Bits(built[i], 64)]

\* main, lines 299-304: write_sa(output_file, (uint8_t) sparseness_factor, sa,
\* sa_length, compressed) with fopen succeeding, then return 0
MainWriteSa ==
    /\ dpc = "built"
    /\ text_buf.driver = "build_ssa"
    /\ LET w == write_sa(factor % 256, BuiltSa, sa_length, compressed)
       IN  /\ file' = w.file
           /\ sa' = w.sa
           /\ sa_length' = w.sa_length
           /\ bits_per_element' = w.bits_per_element
    /\ orig_sa' = BuiltSa
    /\ out_factor' = factor % 256
    /\ exit_status' = <<0>>
    /\ dpc' = "exit"
    /\ UNCHANGED <<in_text, dna, factor, ssa_optimized, ssa_sampled, optimized,
                   packed_width, engine_ret, text_buf>>
    /\ UNCHANGED <<compressed, decompressed_sa, opc>>
    /\ UNCHANGED <<pvars, evars, rvars>>

\* the status of a process that calls free(text): 0 from main's return, or,
\* when text has been freed before, whatever the allocator makes of the second
\* free: it goes unnoticed, or the process is aborted (SIGABRT, 134)
StatusAfterFree(tb) == IF tb.frees > 0 THEN {0, 134} ELSE {0}

\* the benchmark's main, lines 188-195: write_sa(argv[4], sa, sa_length) with
\* fopen succeeding writes the array as it is; then free(text) and return 0
BenchWriteSa ==
    /\ dpc = "built"
    /\ text_buf.driver = "benchmark"
    /\ file' = << [size |-> 8, data |-> BuiltSa] >>
    /\ text_buf' = FreeText(text_buf)
    /\ \E st \in StatusAfterFree(text_buf) : exit_status' = <<st>>
    /\ dpc' = "exit"
    /\ UNCHANGED <<in_text, dna, factor, ssa_optimized, ssa_sampled, optimized,
                   packed_width, engine_ret>>
    /\ UNCHANGED <<sa, sa_length, orig_sa, bits_per_element, compressed, out_factor,
                   decompressed_sa, opc>>
    /\ UNCHANGED <<pvars, evars, rvars>>

\* write_sa when fopen returns NULL: exit(1), nothing is written
MainWriteSaOpenFails ==
    /\ dpc = "built"
    /\ exit_status' = <<1>>
    /\ dpc' = "exit"
    /\ UNCHANGED <<in_text, dna, factor, ssa_optimized, ssa_sampled, optimized,
                   packed_width, engine_ret, text_buf>>
    /\ UNCHANGED NotDriver

MainNext ==
    \/ Translate
    \/ BenchRead
    \/ MainBuildSa
    \/ MainAllocateSaFails
    \/ MainWriteSa
    \/ BenchWriteSa
    \/ MainWriteSaOpenFails

SpecMain == MainInit /\ [][MainNext]_vars

\* C13: whenever the suffix array construction call made by build_sa_optimized
\* or build_sa returns -1 or -2, the driver terminates with a non-zero exit
\* status and writes no suffix array to the output file.
C13_EngineFailureFatal ==
    (dpc = "exit" /\ engine_ret # <<>> /\ engine_ret[1] # 0) =>
        /\ exit_status[1] # 0
        /\ file = <<>>

\* the exit status is non-zero exactly when an allocation of the driver or the
\* fopen of write_sa failed, whatever the construction call returned
ExitStatusIgnoresEngine ==
    dpc = "exit" /\ text_buf.frees < 2 => (exit_status[1] = 0 <=> file # <<>>)

\* main has returned, or would have but for the second free of text
ThroughMain == dpc = "exit" /\ file # <<>>

\* C28: in both drivers, on every path through main (optimized or not, every
\* k and mode, "Alphabet too big" included), the text buffer read_text
\* returned is freed exactly once, and never read after it has been freed
C28_TextFreedOnce ==
    /\ text_buf.frees <= 1
    /\ text_buf.stale_reads = 0
    /\ ThroughMain => text_buf.frees = 1

\* what holds: text is never read after a free; build_ssa never frees it
\* twice, and frees it once unless the alphabet is too big; the benchmark
\* frees it once with -u (optimized = 0) and when the alphabet is too big
TextFreedAsCoded ==
    /\ text_buf.stale_reads = 0
    /\ ThroughMain =>
          text_buf.frees =
             IF text_buf.driver = "build_ssa"
             THEN (IF optimized > 0 /\ factor # 1 /\ PackedWidth(factor, dna) = 0 THEN 0 ELSE 1)
             ELSE (IF optimized > 0 /\ (factor = 1 \/ PackedWidth(factor, dna) > 0) THEN 2 ELSE 1)

\* the benchmark has freed text in build_sa_optimized and again in main
TextFreedTwice ==
    /\ ThroughMain
    /\ text_buf.driver = "benchmark"
    /\ optimized > 0
    /\ text_buf.frees = 2

\* build_ssa has returned 0 after "Alphabet too big" without freeing text
TextNeverFreed ==
    /\ ThroughMain
    /\ text_buf.driver = "build_ssa"
    /\ exit_status = <<0>>
    /\ packed_width = <<0>>
    /\ factor > 1
    /\ text_buf.frees = 0

\* the process has ended with status 0 after a construction call that failed
FailedAndWritten ==
    /\ dpc = "exit"
    /\ engine_ret \in {<<0 - 1>>, <<0 - 2>>}
    /\ exit_status = <<0>>
    /\ Len(file) = 4

\* a 64-bit word is smaller than 2^b
BelowPow2(w, b) == \A p \in 0..63 : p >= b => w[p] = 0

\* build_ssa has compressed the array and written the file
CompressedAndWritten ==
    /\ ThroughMain
    /\ text_buf.driver = "build_ssa"
    /\ compressed > 0

\* C29: in compressed mode every entry of the array handed to compress_sa is
\* smaller than 2^bits_per_element, the width write_sa computed from
\* sa_length * sparseness_factor, for the optimized and the unoptimized output
C29_EntriesFit ==
    CompressedAndWritten =>
        \A i \in 1..Len(orig_sa) : BelowPow2(orig_sa[i], bits_per_element)

\* what holds: the entries fit when an engine has run and returned 0
EntriesFitAfterSuccess ==
    CompressedAndWritten /\ engine_ret = <<0>> =>
        \A i \in 1..Len(orig_sa) : BelowPow2(orig_sa[i], bits_per_element)

\* "Alphabet too big": no engine has run, and an entry of the array that was
\* compressed is not smaller than 2^bits_per_element
TooBigAndCompressed ==
    /\ CompressedAndWritten
    /\ engine_ret = <<>>
    /\ packed_width = <<0>>
    /\ \E i \in 1..Len(orig_sa) : ~BelowPow2(orig_sa[i], bits_per_element)

\* the suffix array of a text of two bytes has been compressed, its largest
\* entry included
BuiltAndCompressed ==
    /\ CompressedAndWritten
    /\ engine_ret = <<0>>
    /\ Len(orig_sa) = 2
    /\ \E i \in 1..2 : orig_sa[i] = Bits(1, 64)

(***************************************************************************)
(* libsais16x64.c.  sa_sint_t is int64_t there; TLC's integers have 32     *)
(* bits, so the model's sa_sint_t has its sign bit at 2^30.  No position   *)
(* or count of the model comes near 2^30: the width only places the tag    *)
(* bit.  ALPHABET_SIZE is 5 instead of 2^16: the bucket block has          *)
(* 8 * ALPHABET_SIZE counters laid out as in the source, and every loop    *)
(* over the alphabet runs over [0, ALPHABET_SIZE).  The unrolled loops     *)
(* (and their prefetches) are modelled by the plain loop they are          *)
(* equivalent to.                                                          *)
(***************************************************************************)
SAINT_MIN == 0 - Pow2Tab[30]

SAINT_MAX == Pow2Tab[30] - 1

ALPHABET_SIZE == 5

LIBSAIS_LOCAL_BUFFER_SIZE == 1024

\* ((c) << 1) + s and ((c) << 2) + s
BUCKETS_INDEX2(c, s) == 2 * c + s

BUCKETS_INDEX4(c, s) == 4 * c + s

\* p & SAINT_MAX
AndMax(p) == IF p < 0 THEN p - SAINT_MIN ELSE p

\* p | SAINT_MIN
OrMin(p) == IF p < 0 THEN p ELSE p + SAINT_MIN

\* p ^ SAINT_MIN
XorMin(p) == IF p < 0 THEN p - SAINT_MIN ELSE p + SAINT_MIN

\* p & SAINT_MIN
AndMin(p) == IF p < 0 THEN SAINT_MIN ELSE 0

\* p ^ q for q in {0, SAINT_MIN}
XorTag(p, q) == IF q = 0 THEN p ELSE XorMin(p)

\* p | ((sa_sint_t)(flag) << (SAINT_BIT - 1)) for p >= 0
Tagged(p, flag) == IF flag THEN OrMin(p) ELSE p

\* a C truth value
Bool(b) == IF b THEN 1 ELSE 0

\* memset(&a[from], 0, count * sizeof(sa_sint_t))
Memset0(a, from, count) ==
    [i \in 1..Len(a) |-> IF i - 1 >= from /\ i - 1 < from + count THEN 0 ELSE a[i]]

\* a[i] += delta
Add(a, i, delta) == Put(a, i, At(a, i) + delta)

\* s = (s << 1) + (c0 > (c1 - (s & 1))): only the low two bits of s are ever read
NextS(s, c0, c1) == (2 * s + Bool(c0 > c1 - (s % 2))) % 4

RECURSIVE CountLoop16u(_, _, _)
\* the loop of libsais16x64_count_and_gather_lms_suffixes_16u from position i
\* down to 0, and the step after it (i = -1)
CountLoop16u(txt, i, st) ==
    LET c1 == IF i >= 0 THEN At(txt, i) ELSE 0 - 1
        s  == NextS(st.s, c1, st.c0)
        nx == [SA |-> Put(st.SA, st.m, i + 1),
               m  |-> st.m - Bool(s % 4 = 1),
               B  |-> Add(st.B, BUCKETS_INDEX4(st.c0, s % 4), 1),
               c0 |-> c1,
               s  |-> s]
    IN  IF i < 0 THEN nx ELSE CountLoop16u(txt, i - 1, nx)

\* count_and_gather_lms_suffixes_16u that starts with s = 0: position n - 1 is
\* taken as S-type
count_and_gather_last_s_type(txt, arr, len, bkt) ==
    LET st == CountLoop16u(txt, len - 2,
                           [SA |-> arr, m |-> len - 1,
                            B  |-> Memset0(bkt, 0, 4 * ALPHABET_SIZE),
                            c0 |-> At(txt, len - 1), s |-> 0])
    IN  [SA |-> st.SA, buckets |-> st.B, m |-> len - 1 - st.m]

\* libsais16x64_count_and_gather_lms_suffixes_16u(T, SA, n, buckets, 0, n):
\* the new SA, the new buckets and the number of LMS suffixes returned
count_and_gather_lms_suffixes_16u(txt, arr, len, bkt) ==
    LET st == CountLoop16u(txt, len - 2,
                           [SA |-> arr, m |-> len - 1,
                            B  |-> Memset0(bkt, 0, 4 * ALPHABET_SIZE),
                            c0 |-> At(txt, len - 1), s |-> 1])
    IN  [SA |-> st.SA, buckets |-> st.B, m |-> len - 1 - st.m]

RECURSIVE StartEndLoop16uNoLms(_, _, _)
\* StartEndLoop16u with the LMS counter buckets[i + 1] left out of freq[j]
StartEndLoop16uNoLms(j, withFreq, st) ==
    IF j >= ALPHABET_SIZE THEN st
    ELSE LET i     == BUCKETS_INDEX4(j, 0)
             total == At(st.B, i) + At(st.B, i + 1) + At(st.B, i + 2) + At(st.B, i + 3)
             b1    == Put(st.B, 6 * ALPHABET_SIZE + j, st.sum)
             b2    == Put(b1, 7 * ALPHABET_SIZE + j, st.sum + total)
         IN  StartEndLoop16uNoLms(j + 1, withFreq,
                 [B    |-> b2,
                  sum  |-> st.sum + total,
                  k    |-> IF total > 0 THEN j ELSE st.k,
                  freq |-> IF withFreq THEN Put(st.freq, j, total - At(st.B, i + 1))
                           ELSE st.freq])

RECURSIVE StartEndLoop16u(_, _, _)
\* the loop of libsais16x64_initialize_buckets_start_and_end_16u from symbol j on
StartEndLoop16u(j, withFreq, st) ==
    IF j >= ALPHABET_SIZE THEN st
    ELSE LET i     == BUCKETS_INDEX4(j, 0)
             total == At(st.B, i) + At(st.B, i + 1) + At(st.B, i + 2) + At(st.B, i + 3)
             b1    == Put(st.B, 6 * ALPHABET_SIZE + j, st.sum)
             b2    == Put(b1, 7 * ALPHABET_SIZE + j, st.sum + total)
         IN  StartEndLoop16u(j + 1, withFreq,
                 [B    |-> b2,
                  sum  |-> st.sum + total,
                  k    |-> IF total > 0 THEN j ELSE st.k,
                  freq |-> IF withFreq THEN Put(st.freq, j, total) ELSE st.freq])

\* libsais16x64_initialize_buckets_start_and_end_16u(buckets, freq): the new
\* buckets, the new freq and the value k + 1 returned; fq = <<>> stands for NULL
initialize_buckets_start_and_end_16u(bkt, fq, withFreq) ==
    LET st == StartEndLoop16u(0, withFreq, [B |-> bkt, sum |-> 0, k |-> 0 - 1, freq |-> fq])
    IN  [buckets |-> st.B, freq |-> st.freq, k |-> st.k + 1]

RECURSIVE RadixInitLoop(_, _, _)
\* the first loop of libsais16x64_initialize_buckets_for_lms_suffixes_radix_sort_16u:
\* for (; --first_lms_suffix >= 0; ), entered with first_lms_suffix = i + 1
RadixInitLoop(txt, i, st) ==
    IF i < 0 THEN Add(st.B, BUCKETS_INDEX4(st.c0, (2 * st.s) % 4), 0 - 1)
    ELSE LET c0 == At(txt, i)
             s  == NextS(st.s, c0, st.c0)
         IN  RadixInitLoop(txt, i - 1,
                 [B |-> Add(st.B, BUCKETS_INDEX4(st.c0, s % 4), 0 - 1), c0 |-> c0, s |-> s])

RECURSIVE RadixSumLoop(_, _)
\* its second loop, from symbol c on: the 2k temp_bucket and the running sum
RadixSumLoop(c, st) ==
    IF c >= ALPHABET_SIZE THEN st
    ELSE LET i  == BUCKETS_INDEX4(c, 0)
             j  == 4 * ALPHABET_SIZE + BUCKETS_INDEX2(c, 0)
             b1 == Put(st.B, j + 1, st.sum)
             s2 == st.sum + At(b1, i + 1) + At(b1, i + 3)
         IN  RadixSumLoop(c + 1, [B |-> Put(b1, j, s2), sum |-> s2])

\* libsais16x64_initialize_buckets_for_lms_suffixes_radix_sort_16u: the new
\* buckets and the sum returned (left_suffixes_count)
initialize_buckets_for_lms_suffixes_radix_sort_16u(txt, bkt, first_lms_suffix) ==
    LET b1 == RadixInitLoop(txt, first_lms_suffix - 1,
                            [B |-> bkt, c0 |-> At(txt, first_lms_suffix), s |-> 0])
        st == RadixSumLoop(0, [B |-> b1, sum |-> 0])
    IN  [buckets |-> st.B, sum |-> st.sum]

RECURSIVE RadixSortLoop(_, _, _, _)
\* libsais16x64_radix_sort_lms_suffixes_16u: i runs from the block's end down to
\* its start; induction_bucket is &buckets[4 * ALPHABET_SIZE]
RadixSortLoop(txt, i, from, st) ==
    IF i < from THEN st
    ELSE LET p   == At(st.SA, i)
             v   == 4 * ALPHABET_SIZE + BUCKETS_INDEX2(At(txt, p), 0)
             b1  == Add(st.B, v, 0 - 1)
         IN  RadixSortLoop(txt, i - 1, from, [SA |-> Put(st.SA, At(b1, v), p), B |-> b1])

\* libsais16x64_radix_sort_lms_suffixes_16u_omp(T, SA, n, m, buckets)
radix_sort_lms_suffixes_16u_omp(txt, arr, len, cnt, bkt) ==
    RadixSortLoop(txt, (len - cnt + 1) + (cnt - 1) - 1, len - cnt + 1, [SA |-> arr, B |-> bkt])

RECURSIVE PartialInitLoop(_, _)
\* the loop of libsais16x64_initialize_buckets_for_partial_sorting_16u
PartialInitLoop(c, st) ==
    IF c >= ALPHABET_SIZE THEN st.B
    ELSE LET i    == BUCKETS_INDEX4(c, 0)
             j    == BUCKETS_INDEX2(c, 0)
             b1   == Put(st.B, 4 * ALPHABET_SIZE + j, st.sum0)
             sum0 == st.sum0 + At(b1, i) + At(b1, i + 2)
             sum1 == st.sum1 + At(b1, i + 1)
             b2   == Put(b1, j, sum0)
             b3   == Put(b2, j + 1, sum1)
         IN  PartialInitLoop(c + 1, [B |-> b3, sum0 |-> sum0, sum1 |-> sum1])

\* libsais16x64_initialize_buckets_for_partial_sorting_16u
initialize_buckets_for_partial_sorting_16u(txt, bkt, first_lms_suffix, left_suffixes_count) ==
    PartialInitLoop(0, [B |-> Add(bkt, BUCKETS_INDEX4(At(txt, first_lms_suffix), 1), 1),
                        sum0 |-> left_suffixes_count + 1, sum1 |-> 0])

\* one step of the partial-sorting scans on the entry p = SA[i]; geq selects
\* T[p - 2] >= T[p - 1] (left to right) or T[p - 2] > T[p - 1] (right to left),
\* ib is the offset of induction_bucket in buckets and up its direction;
\* distinct_names is &buckets[2 * ALPHABET_SIZE]
PartialStep(txt, st, i, geq, ib, up) ==
    LET p0 == At(st.SA, i)
        d  == st.d + Bool(p0 < 0)
        p  == AndMax(p0)
        v  == BUCKETS_INDEX2(At(txt, p - 1),
                             Bool(IF geq THEN At(txt, p - 2) >= At(txt, p - 1)
                                         ELSE At(txt, p - 2) > At(txt, p - 1)))
        dn == 2 * ALPHABET_SIZE + v
        b1 == IF up THEN st.B ELSE Add(st.B, ib + v, 0 - 1)
        at == At(b1, ib + v)
        a1 == Put(st.SA, at, Tagged(p - 1, At(b1, dn) # d))
        b2 == IF up THEN Add(b1, ib + v, 1) ELSE b1
    IN  [SA |-> a1, B |-> Put(b2, dn, d), d |-> d]

RECURSIVE PartialLeftLoop(_, _, _, _)
\* libsais16x64_partial_sorting_scan_left_to_right_16u on SA[i..to)
PartialLeftLoop(txt, i, to, st) ==
    IF i >= to THEN st
    ELSE PartialLeftLoop(txt, i + 1, to, PartialStep(txt, st, i, TRUE, 4 * ALPHABET_SIZE, TRUE))

\* libsais16x64_partial_sorting_scan_left_to_right_16u_omp(T, SA, n, k, buckets,
\* left_suffixes_count, d)
partial_sorting_scan_left_to_right_16u_omp(txt, arr, len, bkt, left_suffixes_count, d) ==
    LET v  == BUCKETS_INDEX2(At(txt, len - 1), Bool(At(txt, len - 2) >= At(txt, len - 1)))
        ib == 4 * ALPHABET_SIZE + v
        a1 == Put(arr, At(bkt, ib), OrMin(len - 1))
        b1 == Add(bkt, ib, 1)
        b2 == Put(b1, 2 * ALPHABET_SIZE + v, d + 1)
    IN  PartialLeftLoop(txt, 0, left_suffixes_count, [SA |-> a1, B |-> b2, d |-> d + 1])

RECURSIVE ShiftInnerAllSet(_, _, _, _)
\* a sweep that sets every tag on its way instead of handing the old one on
ShiftInnerAllSet(arr, i, to, sgn) ==
    IF i < to THEN arr
    ELSE ShiftInnerAllSet(Put(arr, i, OrMin(AndMax(At(arr, i)))), i - 1, to, sgn)

RECURSIVE ShiftInner(_, _, _, _)
\* the inner loop of libsais16x64_partial_sorting_shift_markers_16u_omp
ShiftInner(arr, i, to, sgn) ==
    IF i < to THEN arr
    ELSE LET p == At(arr, i)
             q == IF AndMin(p) = sgn THEN 0 ELSE SAINT_MIN
         IN  ShiftInner(Put(arr, i, XorTag(p, q)), i - 1, to, XorTag(sgn, q))

RECURSIVE ShiftOuter(_, _, _)
\* its outer loop over c = BUCKETS_INDEX2(ALPHABET_SIZE - 1, 0), ..., BUCKETS_INDEX2(1, 0)
ShiftOuter(arr, bkt, c) ==
    IF c < BUCKETS_INDEX2(1, 0) THEN arr
    ELSE ShiftOuter(ShiftInner(arr, At(bkt, 4 * ALPHABET_SIZE + c) - 1,
                               At(bkt, c - BUCKETS_INDEX2(1, 0)), SAINT_MIN),
                    bkt, c - BUCKETS_INDEX2(1, 0))

\* libsais16x64_partial_sorting_shift_markers_16u_omp(SA, n, buckets)
partial_sorting_shift_markers_16u_omp(arr, bkt) ==
    ShiftOuter(arr, bkt, BUCKETS_INDEX2(ALPHABET_SIZE - 1, 0))

RECURSIVE ShiftOuter6k(_, _, _, _)
\* the outer loop of libsais16x64_partial_sorting_shift_markers_32s_6k_omp over
\* c = k - 1, ..., 1, temp_bucket being &buckets[4 * k]
ShiftOuter6k(arr, syms, bkt, c) ==
    IF c < 1 THEN arr
    ELSE ShiftOuter6k(ShiftInner(arr, At(bkt, BUCKETS_INDEX4(c, 0)) - 1,
                                 At(bkt, 4 * syms + BUCKETS_INDEX2(c - 1, 0)), SAINT_MIN),
                      syms, bkt, c - 1)

\* libsais16x64_partial_sorting_shift_markers_32s_6k_omp(SA, k, buckets)
partial_sorting_shift_markers_32s_6k_omp(arr, syms, bkt) == ShiftOuter6k(arr, syms, bkt, syms - 1)

RECURSIVE PartialRightLoop(_, _, _, _)
\* libsais16x64_partial_sorting_scan_right_to_left_16u from i down to from
PartialRightLoop(txt, i, from, st) ==
    IF i < from THEN st
    ELSE PartialRightLoop(txt, i - 1, from, PartialStep(txt, st, i, FALSE, 0, FALSE))

\* libsais16x64_partial_sorting_scan_right_to_left_16u_omp
partial_sorting_scan_right_to_left_16u_omp(txt, arr, len, bkt, first_lms_suffix, left_suffixes_count, d) ==
    LET scan_start == left_suffixes_count + 1
        scan_end   == len - first_lms_suffix
    IN  PartialRightLoop(txt, scan_end - 1, scan_start, [SA |-> arr, B |-> bkt, d |-> d])

RECURSIVE RenumberLoopAllNew(_, _, _, _)
\* the renumbering that gives every LMS suffix a name of its own
RenumberLoopAllNew(i, cnt, arr, name) ==
    IF i >= cnt THEN [SA |-> arr, name |-> name]
    ELSE LET p == At(arr, i)
         IN  RenumberLoopAllNew(i + 1, cnt, Put(arr, cnt + (AndMax(p) \div 2), OrMin(name)),
                                name + 1)

RECURSIVE RenumberLoop(_, _, _, _)
\* libsais16x64_renumber_lms_suffixes_16u on SA[i..cnt): SAm is &SA[m]
RenumberLoop(i, cnt, arr, name) ==
    IF i >= cnt THEN [SA |-> arr, name |-> name]
    ELSE LET p == At(arr, i)
         IN  RenumberLoop(i + 1, cnt, Put(arr, cnt + (AndMax(p) \div 2), OrMin(name)),
                          name + Bool(p < 0))

RECURSIVE GatherMarkedLoop(_, _, _, _)
\* libsais16x64_gather_marked_lms_suffixes from i down to from
GatherMarkedLoop(i, from, arr, l) ==
    IF i < from THEN arr
    ELSE LET e == At(arr, i)
         IN  GatherMarkedLoop(i - 1, from, Put(arr, l, AndMax(e)), l - Bool(e < 0))

\* libsais16x64_renumber_and_gather_lms_suffixes_omp(SA, n, m, fs): the new SA
\* and the number of names returned
renumber_and_gather_lms_suffixes_omp(arr, len, cnt, slack) ==
    LET a0 == Memset0(arr, cnt, len \div 2)
        r  == RenumberLoop(0, cnt, a0, 0)
    IN  IF r.name < cnt
        THEN [SA   |-> GatherMarkedLoop(cnt + (len \div 2) - 1, cnt, r.SA, len + slack - 1),
              name |-> r.name]
        ELSE [SA   |-> [i \in 1..Len(r.SA) |-> IF i - 1 < cnt THEN AndMax(r.SA[i]) ELSE r.SA[i]],
              name |-> r.name]

RECURSIVE GatherLoop16u(_, _, _)
\* the loop of libsais16x64_gather_lms_suffixes_16u from position i down to 0,
\* and the store SA[m] = i + 1 after it
GatherLoop16u(txt, i, st) ==
    IF i < 0 THEN Put(st.SA, st.m, i + 1)
    ELSE LET c0 == At(txt, i)
             s  == NextS(st.s, c0, st.c0)
         IN  GatherLoop16u(txt, i - 1,
                 [SA |-> Put(st.SA, st.m, i + 1), m |-> st.m - Bool(s % 4 = 1),
                  c0 |-> c0, s |-> s])

\* libsais16x64_gather_lms_suffixes_16u_omp(T, SA, n)
gather_lms_suffixes_16u_omp(txt, arr, len) ==
    GatherLoop16u(txt, len - 2, [SA |-> arr, m |-> len - 1, c0 |-> At(txt, len - 1), s |-> 1])

RECURSIVE ReconstructLoopTextOrder(_, _, _, _)
\* ReconstructLoop with SA[i] = SAnm[i]: the order the recursion found is dropped
ReconstructLoopTextOrder(i, cnt, off, arr) ==
    IF i >= cnt THEN arr
    ELSE ReconstructLoopTextOrder(i + 1, cnt, off, Put(arr, i, At(arr, off + i)))

RECURSIVE ReconstructLoop(_, _, _, _)
\* libsais16x64_reconstruct_lms_suffixes: SA[i] = SAnm[SA[i]] with SAnm = &SA[n - m]
ReconstructLoop(i, cnt, off, arr) ==
    IF i >= cnt THEN arr
    ELSE ReconstructLoop(i + 1, cnt, off, Put(arr, i, At(arr, off + At(arr, i))))

\* libsais16x64_reconstruct_lms_suffixes_omp(SA, n, m)
reconstruct_lms_suffixes_omp(arr, len, cnt) == ReconstructLoop(0, cnt, len - cnt, arr)

\* memmove(&a[to], &a[from], count * sizeof(sa_sint_t))
Memmove(a, to, from, count) ==
    [i \in 1..Len(a) |->
        IF i - 1 >= to /\ i - 1 < to + count THEN a[(i - to) + from] ELSE a[i]]

RECURSIVE PlaceLoop(_, _, _, _, _)
\* the loop shared by libsais16x64_place_lms_suffixes_interval_16u and
\* libsais16x64_place_lms_suffixes_histogram_32s_6k (hist): l is the number of
\* LMS suffixes of symbol c, endAt the offset of bucket_end in bkt
PlaceLoop(c, st, bkt, hist, endAt) ==
    IF c < 0 THEN Memset0(st.SA, 0, st.j)
    ELSE LET l == IF hist THEN At(bkt, BUCKETS_INDEX4(c, 1))
                  ELSE At(bkt, BUCKETS_INDEX2(c, 1) + BUCKETS_INDEX2(1, 0))
                          - At(bkt, BUCKETS_INDEX2(c, 1))
             i == At(bkt, endAt + c)
             a1 == IF st.j - i > 0 THEN Memset0(st.SA, i, st.j - i) ELSE st.SA
         IN  IF l > 0
             THEN PlaceLoop(c - 1, [SA |-> Memmove(a1, i - l, st.m - l, l),
                                    j |-> i - l, m |-> st.m - l], bkt, hist, endAt)
             ELSE PlaceLoop(c - 1, st, bkt, hist, endAt)

\* libsais16x64_place_lms_suffixes_interval_16u(SA, n, m, buckets)
place_lms_suffixes_interval_16u(arr, len, cnt, bkt) ==
    PlaceLoop(ALPHABET_SIZE - 2, [SA |-> arr, j |-> len, m |-> cnt], bkt, FALSE,
              7 * ALPHABET_SIZE)

\* T[q] in the final-sorting scans: the uint16_t text txt (off < 0), or the
\* reduced text &SA[off] inside the array a
SymAt(txt, off, a, q) == IF off < 0 THEN At(txt, q) ELSE At(a, off + q)

\* one step of the final-sorting scan from left to right on the entry SA[i]; ib
\* is the offset of induction_bucket in the bucket array
FinalLeftStep(txt, off, st, i, ib) ==
    LET p0 == At(st.SA, i)
        a1 == Put(st.SA, i, XorMin(p0))
        p  == p0 - 1
        c  == SymAt(txt, off, a1, p)
        at == At(st.B, ib + c)
    IN  IF p0 > 0
        THEN [SA |-> Put(a1, at, Tagged(p, SymAt(txt, off, a1, p - Bool(p > 0)) < c)),
              B  |-> Add(st.B, ib + c, 1)]
        ELSE [SA |-> a1, B |-> st.B]

RECURSIVE FinalLeftLoop(_, _, _, _, _, _)
\* libsais16x64_final_sorting_scan_left_to_right_16u / _32s on SA[i..to)
FinalLeftLoop(txt, off, i, to, st, ib) ==
    IF i >= to THEN st
    ELSE FinalLeftLoop(txt, off, i + 1, to, FinalLeftStep(txt, off, st, i, ib), ib)

\* final_sorting_scan_left_to_right that places the last suffix and scans nothing
final_sorting_scan_first_only(txt, off, arr, len, bkt, ib) ==
    LET c  == SymAt(txt, off, arr, len - 1)
        a1 == Put(arr, At(bkt, ib + c), Tagged(len - 1, SymAt(txt, off, arr, len - 2) < c))
    IN  [SA |-> a1, B |-> Add(bkt, ib + c, 1)]

\* libsais16x64_final_sorting_scan_left_to_right_16u_omp / _32s_omp
final_sorting_scan_left_to_right(txt, off, arr, len, bkt, ib) ==
    LET c  == SymAt(txt, off, arr, len - 1)
        a1 == Put(arr, At(bkt, ib + c), Tagged(len - 1, SymAt(txt, off, arr, len - 2) < c))
    IN  FinalLeftLoop(txt, off, 0, len, [SA |-> a1, B |-> Add(bkt, ib + c, 1)], ib)

\* FinalRightStep that clears the tag of SA[i] and induces nothing
FinalRightStepNoInduce(txt, off, st, i, ib) ==
    [SA |-> Put(st.SA, i, AndMax(At(st.SA, i))), B |-> st.B]

\* one step of the final-sorting scan from right to left on the entry SA[i]
FinalRightStep(txt, off, st, i, ib) ==
    LET p0 == At(st.SA, i)
        a1 == Put(st.SA, i, AndMax(p0))
        p  == p0 - 1
        c  == SymAt(txt, off, a1, p)
        b1 == Add(st.B, ib + c, 0 - 1)
    IN  IF p0 > 0
        THEN [SA |-> Put(a1, At(b1, ib + c), Tagged(p, SymAt(txt, off, a1, p - Bool(p > 0)) > c)),
              B  |-> b1]
        ELSE [SA |-> a1, B |-> st.B]

RECURSIVE FinalRightLoop(_, _, _, _, _, _)
\* libsais16x64_final_sorting_scan_right_to_left_16u / _32s from i down to from
FinalRightLoop(txt, off, i, from, st, ib) ==
    IF i < from THEN st
    ELSE FinalRightLoop(txt, off, i - 1, from, FinalRightStep(txt, off, st, i, ib), ib)

\* libsais16x64_final_sorting_scan_right_to_left_16u_omp / _32s_omp
final_sorting_scan_right_to_left(txt, off, arr, len, bkt, ib) ==
    FinalRightLoop(txt, off, len - 1, 0, [SA |-> arr, B |-> bkt], ib)

RECURSIVE CountLoop32s(_, _, _)
\* the loop of libsais16x64_count_and_gather_lms_suffixes_32s_4k from position i
\* down to 0, and the step after it; the text T is &SA[off]
CountLoop32s(off, i, st) ==
    LET c1 == IF i >= 0 THEN At(st.SA, off + i) ELSE 0 - 1
        s  == NextS(st.s, c1, st.c0)
        nx == [SA |-> Put(st.SA, st.m, i + 1),
               m  |-> st.m - Bool(s % 4 = 1),
               B  |-> Add(st.B, BUCKETS_INDEX4(st.c0, s % 4), 1),
               c0 |-> c1,
               s  |-> s]
    IN  IF i < 0 THEN nx ELSE CountLoop32s(off, i - 1, nx)

\* libsais16x64_count_and_gather_lms_suffixes_32s_4k_omp(T, SA, n, k, buckets)
count_and_gather_lms_suffixes_32s_4k_omp(off, arr, len, syms, bkt) ==
    LET st == CountLoop32s(off, len - 2,
                           [SA |-> arr, m |-> len - 1,
                            B  |-> Memset0(bkt, 0, 4 * syms),
                            c0 |-> At(arr, off + len - 1), s |-> 1])
    IN  [SA |-> st.SA, buckets |-> st.B, m |-> len - 1 - st.m]

RECURSIVE StartEndLoop6k(_, _, _, _)
\* libsais16x64_initialize_buckets_start_and_end_32s_6k(k, buckets) from symbol j on
StartEndLoop6k(j, syms, bkt, sum) ==
    IF j >= syms THEN bkt
    ELSE LET i     == BUCKETS_INDEX4(j, 0)
             b1    == Put(bkt, 4 * syms + j, sum)
             total == At(b1, i) + At(b1, i + 1) + At(b1, i + 2) + At(b1, i + 3)
         IN  StartEndLoop6k(j + 1, syms, Put(b1, 5 * syms + j, sum + total), sum + total)

initialize_buckets_start_and_end_32s_6k(syms, bkt) == StartEndLoop6k(0, syms, bkt, 0)

\* libsais16x64_place_lms_suffixes_histogram_32s_6k(SA, n, k, m, buckets)
place_lms_suffixes_histogram_32s_6k(arr, len, syms, cnt, bkt) ==
    PlaceLoop(syms - 2, [SA |-> arr, j |-> len, m |-> cnt], bkt, TRUE, 5 * syms)

\* libsais16x64_induce_final_order_32s_6k(T, SA, n, k, buckets) with T = &SA[off]
induce_final_order_32s_6k(off, arr, len, syms, bkt) ==
    LET l == final_sorting_scan_left_to_right(<<>>, off, arr, len, bkt, 4 * syms)
    IN  final_sorting_scan_right_to_left(<<>>, off, l.SA, len, l.B, 5 * syms)

\* induce_final_order_16u_omp without the scan from right to left
induce_final_order_left_only(txt, arr, len, bkt) ==
    final_sorting_scan_left_to_right(txt, 0 - 1, arr, len, bkt, 6 * ALPHABET_SIZE)

\* libsais16x64_induce_final_order_16u_omp(T, SA, n, k, 0, 0, NULL, buckets)
induce_final_order_16u_omp(txt, arr, len, bkt) ==
    LET l == final_sorting_scan_left_to_right(txt, 0 - 1, arr, len, bkt, 6 * ALPHABET_SIZE)
    IN  final_sorting_scan_right_to_left(txt, 0 - 1, l.SA, len, l.B, 7 * ALPHABET_SIZE)

(***************************************************************************)
(* libsais16x64 as a state machine: one action per pass of                 *)
(* libsais16x64_main_16u and of libsais16x64_main_32s_recursion.           *)
(***************************************************************************)
\* the symbols of the modelled texts: the smallest, the largest and one between
Symbols == {0, 1, ALPHABET_SIZE - 1}

\* what memory holds that nobody has written: all bits set
Garbage == 0 - 1

Filled(len, x) == [i \in 1..len |-> x]

NoFrame ==
    [m |-> 0, k |-> 0, first_lms_suffix |-> 0, left_suffixes_count |-> 0, d |-> 0, names |-> 0]

NoFrame32 == [T |-> 0, n |-> 0, k |-> 0, fs |-> 0, m |-> 0]

\* a call of libsais16x64(T, SA, n, fs, freq)
EngineCall(txt, len, slack, tNull, saNull, freqNull) ==
    /\ T = txt
    /\ args = [n |-> len, fs |-> slack, T_null |-> tNull, SA_null |-> saNull,
               freq_null |-> freqNull]
    /\ SA = IF saNull THEN <<>> ELSE Filled(Len(txt) + (IF slack > 0 THEN slack ELSE 0), Garbage)
    /\ freq = IF freqNull THEN <<>> ELSE Filled(ALPHABET_SIZE, Garbage)
    /\ SA0 = SA
    /\ freq0 = freq
    /\ buckets = <<>>
    /\ local_buffer = <<>>
    /\ frame = NoFrame
    /\ frame32 = NoFrame32
    /\ heap = [mallocs |-> 0, live |-> 0]
    /\ index = 0
    /\ epc = "call"

\* "banana" with its bytes renamed in order: a, b, n -> 0, 1, 2
Banana == <<1, 0, 2, 0, 2, 0>>

\* "abracadabra": a, b, c, d, r -> 0, 1, 2, 3, 4
Abracadabra == <<0, 1, 4, 0, 2, 0, 3, 0, 1, 4, 0>>

\* "MISSISSIPPI": I, M, P, S -> 0, 1, 2, 3
Mississippi == <<1, 0, 3, 3, 0, 3, 3, 0, 2, 2, 0>>

\* "ACGTACGT": A, C, G, T -> 0, 1, 2, 3
Acgtacgt == <<0, 1, 2, 3, 0, 1, 2, 3>>

\* the texts with a known suffix array
KnownTexts == {Banana, Abracadabra, Mississippi, Acgtacgt}

EngineInit ==
    /\ ReturnIdle
    /\ PackIdle
    /\ OutIdle
    /\ DriverIdle
    /\ \/ \E txt \in KnownTexts, freqNull \in BOOLEAN :
             EngineCall(txt, Len(txt), 0, FALSE, FALSE, freqNull)
       \/ \E txt \in SeqsUpTo(Symbols, MaxLen), slack \in 0..MaxFs, freqNull \in BOOLEAN :
             EngineCall(txt, Len(txt), slack, FALSE, FALSE, freqNull)
       \/ \E txt \in SeqsUpTo(Symbols, MaxBadLen), slack \in {0 - 1, 0}, tNull \in BOOLEAN, saNull \in BOOLEAN, freqNull \in BOOLEAN :
          \E len \in {0 - 1, Len(txt)} :
             /\ tNull \/ saNull \/ len < 0 \/ slack < 0
             /\ tNull => txt = <<>>
             /\ EngineCall(txt, len, slack, tNull, saNull, freqNull)

\* the argument check of libsais16x64 without `fs < 0`
InvalidArgsNoFs(a) == a.T_null \/ a.SA_null \/ a.n < 0

\* (T == NULL) || (SA == NULL) || (n < 0) || (fs < 0)
InvalidArgs(a) == a.T_null \/ a.SA_null \/ a.n < 0 \/ a.fs < 0

\* ShortTextSA that clears the whole array
ShortTextSAClearAll(arr, len) == Filled(Len(arr), 0)

\* libsais16x64, n < 2: if (n == 1) { SA[0] = 0; }
ShortTextSA(arr, len) == IF len = 1 THEN Put(arr, 0, 0) ELSE arr

\* libsais16x64 up to the call of libsais16x64_main
Call ==
    /\ epc = "call"
    /\ IF InvalidArgs(args)
       THEN /\ index' = 0 - 1
            /\ epc' = "returned"
            /\ UNCHANGED <<SA, freq>>
       ELSE IF args.n < 2
       THEN /\ freq' = IF args.freq_null THEN freq
                       ELSE [i \in 1..ALPHABET_SIZE |->
                                IF args.n = 1 /\ i - 1 = At(T, 0) THEN 1 ELSE 0]
            /\ SA' = ShortTextSA(SA, args.n)
            /\ index' = 0
            /\ epc' = "returned"
       ELSE /\ epc' = "main"
            /\ UNCHANGED <<SA, freq, index>>
    /\ UNCHANGED <<T, args, SA0, freq0, buckets, local_buffer, frame, frame32, heap>>
    /\ UNCHANGED NotEngine

\* libsais16x64_main: libsais16x64_alloc_aligned returns a block
MainAlloc ==
    /\ epc = "main"
    /\ buckets' = Filled(8 * ALPHABET_SIZE, Garbage)
    /\ heap' = [mallocs |-> heap.mallocs + 1, live |-> heap.live + 1]
    /\ epc' = "main_16u"
    /\ UNCHANGED <<T, SA, freq, args, SA0, freq0, local_buffer, frame, frame32, index>>
    /\ UNCHANGED NotEngine

\* libsais16x64_main: libsais16x64_alloc_aligned returns NULL
MainAllocFails ==
    /\ epc = "main"
    /\ heap' = [heap EXCEPT !.mallocs = @ + 1]
    /\ index' = 0 - 2
    /\ epc' = "returned"
    /\ UNCHANGED <<T, SA, freq, args, SA0, freq0, buckets, local_buffer, frame, frame32>>
    /\ UNCHANGED NotEngine

\* fs = fs < (SAINT_MAX - n) ? fs : (SAINT_MAX - n)
ClampFs(slack, len) == IF slack < SAINT_MAX - len THEN slack ELSE SAINT_MAX - len

\* libsais16x64_main_16u: count_and_gather_lms_suffixes_16u_omp and
\* initialize_buckets_start_and_end_16u
CountAndGather ==
    /\ epc = "main_16u"
    /\ LET c == count_and_gather_lms_suffixes_16u(T, SA, args.n, buckets)
           e == initialize_buckets_start_and_end_16u(c.buckets, freq, ~args.freq_null)
       IN  /\ SA' = c.SA
           /\ buckets' = e.buckets
           /\ freq' = e.freq
           /\ frame' = [frame EXCEPT !.m = c.m, !.k = e.k]
           /\ epc' = IF c.m > 0 THEN "lms" ELSE "no_lms"
    /\ UNCHANGED <<T, args, SA0, freq0, local_buffer, frame32, heap, index>>
    /\ UNCHANGED NotEngine

\* libsais16x64_main_16u, m = 0: memset(SA, 0, n * sizeof(sa_sint_t))
NoLms ==
    /\ epc = "no_lms"
    /\ SA' = Memset0(SA, 0, args.n)
    /\ epc' = "final"
    /\ UNCHANGED <<T, freq, args, SA0, freq0, buckets, local_buffer, frame, frame32, heap, index>>
    /\ UNCHANGED NotEngine

\* libsais16x64_main_16u, m > 0: the radix sort of the LMS suffixes
RadixSort ==
    /\ epc = "lms"
    /\ LET first == At(SA, args.n - frame.m)
           i     == initialize_buckets_for_lms_suffixes_radix_sort_16u(T, buckets, first)
           r     == radix_sort_lms_suffixes_16u_omp(T, SA, args.n, frame.m, i.buckets)
       IN  /\ SA' = r.SA
           /\ buckets' = r.B
           /\ frame' = [frame EXCEPT !.first_lms_suffix = first,
                                     !.left_suffixes_count = i.sum]
    /\ epc' = "radix_sorted"
    /\ UNCHANGED <<T, freq, args, SA0, freq0, local_buffer, frame32, heap, index>>
    /\ UNCHANGED NotEngine

\* libsais16x64_main_16u: initialize_buckets_for_partial_sorting_16u, and of
\* libsais16x64_induce_partial_order_16u_omp the memset and the scan from left
\* to right
PartialScanLeft ==
    /\ epc = "radix_sorted"
    /\ LET b  == initialize_buckets_for_partial_sorting_16u(T, buckets, frame.first_lms_suffix,
                                                            frame.left_suffixes_count)
           b0 == Memset0(b, 2 * ALPHABET_SIZE, 2 * ALPHABET_SIZE)
           l  == partial_sorting_scan_left_to_right_16u_omp(T, SA, args.n, b0,
                                                            frame.left_suffixes_count, 0)
       IN  /\ SA' = l.SA
           /\ buckets' = l.B
           /\ frame' = [frame EXCEPT !.d = l.d]
    /\ epc' = "scanned_left"
    /\ UNCHANGED <<T, freq, args, SA0, freq0, local_buffer, frame32, heap, index>>
    /\ UNCHANGED NotEngine

\* libsais16x64_induce_partial_order_16u_omp: the markers are shifted
ShiftMarkers ==
    /\ epc = "scanned_left"
    /\ SA' = partial_sorting_shift_markers_16u_omp(SA, buckets)
    /\ epc' = "shifted"
    /\ UNCHANGED <<T, freq, args, SA0, freq0, buckets, local_buffer, frame, frame32, heap, index>>
    /\ UNCHANGED NotEngine

\* libsais16x64_induce_partial_order_16u_omp: the scan from right to left
PartialScanRight ==
    /\ epc = "shifted"
    /\ LET r == partial_sorting_scan_right_to_left_16u_omp(T, SA, args.n, buckets,
                                                           frame.first_lms_suffix,
                                                           frame.left_suffixes_count, frame.d)
       IN  /\ SA' = r.SA
           /\ buckets' = r.B
    /\ epc' = "induced"
    /\ UNCHANGED <<T, freq, args, SA0, freq0, local_buffer, frame, frame32, heap, index>>
    /\ UNCHANGED NotEngine

\* libsais16x64_main_16u: renumber_and_gather_lms_suffixes_omp and the test
\* names < m
RenumberAndGather ==
    /\ epc = "induced"
    /\ LET r == renumber_and_gather_lms_suffixes_omp(SA, args.n, frame.m,
                                                     ClampFs(args.fs, args.n))
       IN  /\ SA' = r.SA
           /\ frame' = [frame EXCEPT !.names = r.name]
           /\ epc' = IF r.name < frame.m THEN "main_32s" ELSE "place"
    /\ UNCHANGED <<T, freq, args, SA0, freq0, buckets, local_buffer, frame32, heap, index>>
    /\ UNCHANGED NotEngine

\* libsais16x64_main_32s_entry and libsais16x64_main_32s_recursion up to the
\* test m > 1, when the buckets are the local_buffer: the reduced text is
\* SA + n + fs - m, of m symbols out of names, with fs + n - 2 * m of slack
Main32sCount ==
    /\ epc = "main_32s"
    /\ LET slack == ClampFs(args.fs, args.n)
           off   == args.n + slack - frame.m
           fs32  == ClampFs(slack + args.n - 2 * frame.m, frame.m)
       IN  /\ frame.names > 0
           /\ LIBSAIS_LOCAL_BUFFER_SIZE \div frame.names >= 6
           /\ LET c == count_and_gather_lms_suffixes_32s_4k_omp(
                           off, SA, frame.m, frame.names,
                           Filled(LIBSAIS_LOCAL_BUFFER_SIZE, Garbage))
              IN  /\ SA' = c.SA
                  /\ local_buffer' = c.buckets
                  /\ frame32' = [T |-> off, n |-> frame.m, k |-> frame.names,
                                 fs |-> fs32, m |-> c.m]
    /\ epc' = "counted_32s"
    /\ UNCHANGED <<T, freq, args, SA0, freq0, buckets, frame, heap, index>>
    /\ UNCHANGED NotEngine

\* libsais16x64_main_32s_recursion, m <= 1: the suffixes of the reduced text
\* are induced from its single LMS suffix, and the call returns 0
Main32sInduce ==
    /\ epc = "counted_32s"
    /\ frame32.m <= 1
    /\ LET a0 == Put(SA, 0, At(SA, frame32.n - 1))
           b  == initialize_buckets_start_and_end_32s_6k(frame32.k, local_buffer)
           a1 == place_lms_suffixes_histogram_32s_6k(a0, frame32.n, frame32.k, frame32.m, b)
           r  == induce_final_order_32s_6k(frame32.T, a1, frame32.n, frame32.k, b)
       IN  SA' = r.SA
    /\ local_buffer' = <<>>
    /\ epc' = "recursed"
    /\ UNCHANGED <<T, freq, args, SA0, freq0, buckets, frame, frame32, heap, index>>
    /\ UNCHANGED NotEngine

\* libsais16x64_main_16u after the recursion: gather_lms_suffixes_16u_omp and
\* reconstruct_lms_suffixes_omp
Reconstruct ==
    /\ epc = "recursed"
    /\ SA' = reconstruct_lms_suffixes_omp(gather_lms_suffixes_16u_omp(T, SA, args.n),
                                          args.n, frame.m)
    /\ epc' = "place"
    /\ UNCHANGED <<T, freq, args, SA0, freq0, buckets, local_buffer, frame, frame32, heap, index>>
    /\ UNCHANGED NotEngine

\* libsais16x64_main_16u: place_lms_suffixes_interval_16u
PlaceLms ==
    /\ epc = "place"
    /\ SA' = place_lms_suffixes_interval_16u(SA, args.n, frame.m, buckets)
    /\ epc' = "final"
    /\ UNCHANGED <<T, freq, args, SA0, freq0, buckets, local_buffer, frame, frame32, heap, index>>
    /\ UNCHANGED NotEngine

\* libsais16x64_main_16u: induce_final_order_16u_omp; libsais16x64_main then
\* frees the buckets and returns the index 0
InduceFinalOrder ==
    /\ epc = "final"
    /\ SA' = induce_final_order_16u_omp(T, SA, args.n, buckets).SA
    /\ buckets' = <<>>
    /\ heap' = [heap EXCEPT !.live = @ - 1]
    /\ index' = 0
    /\ epc' = "returned"
    /\ UNCHANGED <<T, freq, args, SA0, freq0, local_buffer, frame, frame32>>
    /\ UNCHANGED NotEngine

EngineNext ==
    \/ Call
    \/ MainAlloc
    \/ MainAllocFails
    \/ CountAndGather
    \/ NoLms
    \/ RadixSort
    \/ PartialScanLeft
    \/ ShiftMarkers
    \/ PartialScanRight
    \/ RenumberAndGather
    \/ Main32sCount
    \/ Main32sInduce
    \/ Reconstruct
    \/ PlaceLms
    \/ InduceFinalOrder

SpecEngine == EngineInit /\ [][EngineNext]_vars

\* within the bounds every recursive call takes the local_buffer and finds at
\* most one LMS suffix in the reduced text
RecursionIsFlat ==
    /\ epc = "main_32s" => frame.names > 0 /\ LIBSAIS_LOCAL_BUFFER_SIZE \div frame.names >= 6
    /\ epc = "counted_32s" => frame32.m <= 1

(***************************************************************************)
(* The contract of libsais16x64.                                           *)
(***************************************************************************)
\* libsais16x64 has returned 0 for a text of at least two symbols
ReturnedSA == epc = "returned" /\ index = 0 /\ args.n >= 2 /\ args.fs >= 0

\* C1: when libsais16x64 returns 0 for a text of n >= 2 symbols and fs >= 0,
\* SA[0..n) is a permutation of [0, n): every entry lies in [0, n), so no tag
\* (sign) bit is left set, and no value occurs twice
C1_Permutation ==
    ReturnedSA =>
        /\ \A i \in 0..(args.n - 1) : At(SA, i) >= 0 /\ At(SA, i) < args.n
        /\ \A i, j \in 0..(args.n - 1) : i < j => At(SA, i) # At(SA, j)

\* a text of at least five symbols whose LMS suffixes needed the recursion
C1_Witness == ReturnedSA /\ args.n >= 5 /\ frame.names < frame.m

\* C2: when libsais16x64 returns 0 for a text of n >= 2 symbols and fs >= 0,
\* the suffix at SA[i] is strictly smaller than the suffix at SA[i + 1] for
\* every i < n - 1, a proper prefix being smaller than any longer string
C2_Ordering ==
    ReturnedSA =>
        \A i \in 0..(args.n - 2) :
            /\ At(SA, i) \in 0..(args.n - 1)
            /\ At(SA, i + 1) \in 0..(args.n - 1)
            /\ SuffixLess(T, At(SA, i), At(SA, i + 1))

\* a text with a repeated symbol, sorted through the recursion into slack
C2_Witness ==
    /\ ReturnedSA
    /\ args.fs > 0
    /\ frame.names < frame.m
    /\ \E i, j \in 0..(args.n - 1) : i # j /\ At(T, i) = At(T, j)

\* the first half of C26: whatever the slack fs >= 0, a successful call leaves
\* in SA[0..n) the one suffix array of T, so that two calls on the same text
\* with two slacks leave the same entries
SlackIndependent ==
    ReturnedSA => \A i \in 0..(args.n - 1) : At(SA, i) = SuffixArray(T)[i + 1]

\* a text sorted through the recursion with the largest slack
SortedWithSlack == ReturnedSA /\ args.fs = MaxFs /\ frame.names < frame.m

\* a text sorted through the recursion without any slack
SortedWithoutSlack == ReturnedSA /\ args.fs = 0 /\ frame.names < frame.m

\* C4: with T NULL, SA NULL, n < 0 or fs < 0 libsais16x64 returns -1, SA and
\* freq stay as they were before the call and no allocation is made
C4_InvalidArgs ==
    args.T_null \/ args.SA_null \/ args.n < 0 \/ args.fs < 0 =>
        /\ SA = SA0
        /\ freq = freq0
        /\ heap.mallocs = 0
        /\ buckets = <<>>
        /\ epc \in {"call", "returned"}
        /\ epc = "returned" => index = 0 - 1

\* the call with fs < 0 as its only invalid argument has returned
C4_Witness ==
    /\ epc = "returned"
    /\ args.fs < 0
    /\ ~args.T_null /\ ~args.SA_null /\ args.n >= 0
    /\ index = 0 - 1

\* the other invalid arguments, each alone, have been turned down as well
InvalidArgsEachAlone ==
    epc = "returned" /\ index = 0 - 1 =>
        args.T_null \/ args.SA_null \/ args.n < 0 \/ args.fs < 0

(***************************************************************************)
(* The return codes of libsais16x64 on texts of any size: the calls, the   *)
(* allocations and the returns of libsais16x64, libsais16x64_main,         *)
(* libsais16x64_main_16u and libsais16x64_main_32s_recursion, with the     *)
(* numbers the sorting passes compute (m, names, f) drawn from the values  *)
(* they can take.                                                          *)
(***************************************************************************)
\* the lengths and the slacks of the calls followed
ReturnLens ==
    {0 - 1, 0, 1, 2, MaxN \div 4, MaxN} \cup
    {5 * (LIBSAIS_LOCAL_BUFFER_SIZE \div 6) + 4, 5 * (LIBSAIS_LOCAL_BUFFER_SIZE \div 6) + 6}

ReturnSlacks ==
    {0 - 1, 0, MaxN \div 5, MaxN \div 2, (3 * MaxN) \div 4, (6 * MaxN) \div 5, 3 * MaxN}

\* where SA starts, in entries after a multiple of 1024 entries
ReturnBases == {0, 5}

\* a count of LMS suffixes that takes every position but two for one
MChoicesAdjacent(len) == {0, 1, len - 2}

\* the number m of LMS suffixes a pass may find in a text of len symbols
MChoices(len) == {0, 1, len \div 2}

\* the number of names given to cnt > 0 LMS suffixes: all distinct, or repeated
NamesChoices(cnt) == {cnt} \cup {x \in {(2 * cnt) \div 5} : x >= 1}

\* the number f of LMS suffixes libsais16x64_compact_lms_suffixes_32s_omp
\* takes out of the reduced text
FChoices(nm) == {0, nm \div 8}

Top == stack[Len(stack)]

SetTop(fr) == [stack EXCEPT ![Len(stack)] = fr]

Pop == SubSeq(stack, 1, Len(stack) - 1)

\* a bucket pointer: NULL, local_buffer, a block of the heap, or &SA[at]
NoBuckets == [where |-> "null", at |-> 0]

LocalBuckets == [where |-> "local", at |-> 0]

HeapBuckets == [where |-> "heap", at |-> 0]

\* align_up that steps to the next multiple of the alignment once more
align_up_twice(base, i, alignment) ==
    [where |-> "sa", at |-> i + alignment + ((alignment - ((base + i) % alignment)) % alignment)]

\* libsais16x64_align_up(&SA[i], alignment * sizeof(sa_sint_t)) as an index of
\* SA, for an SA that starts base entries after a multiple of the alignment
align_up(base, i, alignment) ==
    [where |-> "sa", at |-> i + ((alignment - ((base + i) % alignment)) % alignment)]

\* the buckets of the 6k branch
Buckets6k(base, len, syms, slack) ==
    LET alignment == IF (slack - 1024) \div syms >= 6 THEN 1024 ELSE 16
    IN  IF LIBSAIS_LOCAL_BUFFER_SIZE \div syms >= 6 THEN LocalBuckets
        ELSE IF (slack - alignment) \div syms >= 6
        THEN align_up(base, len + slack - 6 * syms - alignment, alignment)
        ELSE [where |-> "sa", at |-> len + slack - 6 * syms]

\* the buckets of the 1k branch, buffer being NULL or a block of k counters
Buckets1k(base, len, syms, slack, buffer) ==
    LET alignment == IF slack - 1024 >= syms THEN 1024 ELSE 16
    IN  IF slack - alignment >= syms
        THEN align_up(base, len + slack - syms - alignment, alignment)
        ELSE IF slack >= syms THEN [where |-> "sa", at |-> len + slack - syms]
        ELSE IF buffer = "live" THEN HeapBuckets ELSE NoBuckets

\* free_aligned that frees whatever it is given
free_aligned_unchecked(buffer) == IF buffer = "live" THEN "freed" ELSE "freed twice"

\* libsais16x64_free_aligned(buffer): the state of the block afterwards
free_aligned(buffer) ==
    IF buffer = "null" THEN "null"
    ELSE IF buffer = "live" THEN "freed" ELSE "freed twice"

\* the number of blocks on the heap after buffer has become after
Freed(buffer, after) == IF buffer = "live" /\ after # "live" THEN blocks - 1 ELSE blocks

\* the frame of libsais16x64_main_32s_recursion(SA + n + fs - m + f, SA, m - f,
\* names - f, fs + n - 2 * m + f, local_buffer)
Frame32s(len, slack, cnt, nm, f) ==
    [fn |-> "main_32s_recursion", valid |-> TRUE, n |-> cnt - f, k |-> nm - f,
     fs |-> slack + len - 2 * cnt + f, base |-> Top.base, text_at |-> len + slack - cnt + f,
     buckets |-> NoBuckets, buffer |-> "null", marks |-> 0, pc |-> "enter"]

\* the test `!= 0` without which a result is taken for a success
FailedNever(v) == FALSE

\* if (libsais16x64_main_32s_recursion(...) != 0)
Failed(v) == v # 0

ReturnInit ==
    /\ PackIdle
    /\ OutIdle
    /\ DriverIdle
    /\ EngineIdle
    /\ \E len \in ReturnLens, slack \in ReturnSlacks, ptrs \in BOOLEAN, b \in ReturnBases :
          stack = <<[fn |-> "libsais16x64", valid |-> ptrs, n |-> len, k |-> 0,
                     fs |-> slack, base |-> b, text_at |-> 0 - 1,
                     buckets |-> NoBuckets, buffer |-> "null", marks |-> 0, pc |-> "call"]>>
    /\ ret = <<>>
    /\ ret_marks = 0
    /\ fail_depth = 0
    /\ blocks = 0

\* libsais16x64 up to the call of libsais16x64_main
RCall ==
    /\ stack # <<>>
    /\ Top.pc = "call"
    /\ IF ~Top.valid \/ Top.n < 0 \/ Top.fs < 0
       THEN stack' = Pop /\ ret' = <<0 - 1>> /\ ret_marks' = Top.marks
       ELSE IF Top.n < 2
       THEN stack' = Pop /\ ret' = <<0>> /\ ret_marks' = Top.marks
       ELSE stack' = SetTop([Top EXCEPT !.pc = "main"]) /\ ret' = ret /\ ret_marks' = ret_marks
    /\ UNCHANGED <<fail_depth, blocks>>
    /\ UNCHANGED NotReturn

\* libsais16x64_main: the bucket block is allocated
RMainAlloc ==
    /\ stack # <<>>
    /\ Top.pc = "main"
    /\ blocks' = blocks + 1
    /\ stack' = SetTop([Top EXCEPT !.pc = "main_16u", !.buffer = "live", !.buckets = HeapBuckets])
    /\ UNCHANGED <<ret, ret_marks, fail_depth>>
    /\ UNCHANGED NotReturn

\* libsais16x64_main: the allocation fails, index = -2 is returned after
\* libsais16x64_free_aligned(NULL)
RMainAllocFails ==
    /\ stack # <<>>
    /\ Top.pc = "main"
    /\ fail_depth' = Len(stack)
    /\ stack' = SetTop([Top EXCEPT !.pc = "main_return", !.buffer = free_aligned(Top.buffer)])
    /\ ret' = <<0 - 2>> /\ ret_marks' = Top.marks
    /\ blocks' = Freed(Top.buffer, free_aligned(Top.buffer))
    /\ UNCHANGED NotReturn

\* libsais16x64_main_16u up to the test names < m and the call of
\* libsais16x64_main_32s_entry
RMain16u ==
    /\ stack # <<>>
    /\ Top.pc = "main_16u"
    /\ \E cnt \in MChoices(Top.n) :
          IF cnt > 0
          THEN \E nm \in NamesChoices(cnt) :
                  IF nm < cnt
                  THEN stack' = Append(SetTop([Top EXCEPT !.pc = "main_16u_called"]),
                                       Frame32s(Top.n, ClampFs(Top.fs, Top.n), cnt, nm, 0))
                  ELSE stack' = SetTop([Top EXCEPT !.pc = "main_16u_final"])
          ELSE stack' = SetTop([Top EXCEPT !.pc = "main_16u_final"])
    /\ UNCHANGED <<ret, ret_marks, fail_depth, blocks>>
    /\ UNCHANGED NotReturn

\* libsais16x64_main_16u after libsais16x64_main_32s_entry has returned: a
\* failure is returned as -2 to libsais16x64_main, which frees the buckets
RMain16uResume ==
    /\ stack # <<>>
    /\ Top.pc = "main_16u_called"
    /\ ret # <<>>
    /\ IF Failed(ret[1])
       THEN /\ blocks' = Freed(Top.buffer, free_aligned(Top.buffer))
            /\ stack' = SetTop([Top EXCEPT !.pc = "main_return",
                                           !.buffer = free_aligned(Top.buffer)])
            /\ ret' = <<0 - 2>> /\ ret_marks' = Top.marks
       ELSE /\ stack' = SetTop([Top EXCEPT !.pc = "main_16u_final"])
            /\ ret' = <<>> /\ ret_marks' = 0
            /\ UNCHANGED blocks
    /\ UNCHANGED fail_depth
    /\ UNCHANGED NotReturn

\* libsais16x64_main_16u returns what libsais16x64_induce_final_order_16u_omp
\* returns, 0; libsais16x64_main frees the buckets
RMain16uFinal ==
    /\ stack # <<>>
    /\ Top.pc = "main_16u_final"
    /\ blocks' = Freed(Top.buffer, free_aligned(Top.buffer))
    /\ stack' = SetTop([Top EXCEPT !.pc = "main_return", !.buffer = free_aligned(Top.buffer)])
    /\ ret' = <<0>> /\ ret_marks' = Top.marks
    /\ UNCHANGED fail_depth
    /\ UNCHANGED NotReturn

\* libsais16x64_main and libsais16x64 return index
RMainReturn ==
    /\ stack # <<>>
    /\ Top.pc = "main_return"
    /\ stack' = Pop
    /\ UNCHANGED <<ret, ret_marks, fail_depth, blocks>>
    /\ UNCHANGED NotReturn

\* a test that sends every call down the 1k branch
FitsNever(syms, slack) == FALSE

\* the test that sends libsais16x64_main_32s_recursion down its 6k branch
Fits6k(syms, slack) ==
    syms > 0 /\ (slack \div syms >= 6 \/ LIBSAIS_LOCAL_BUFFER_SIZE \div syms >= 6)

\* libsais16x64_main_32s_recursion: fs is clamped and the branch chosen, with
\* the buckets of the 6k branch
RRecursionEnter ==
    /\ stack # <<>>
    /\ Top.pc = "enter"
    /\ LET slack == ClampFs(Top.fs, Top.n)
       IN  stack' = SetTop(IF Fits6k(Top.k, slack)
                           THEN [Top EXCEPT !.fs = slack, !.pc = "6k",
                                            !.buckets = Buckets6k(Top.base, Top.n, Top.k, slack)]
                           ELSE [Top EXCEPT !.fs = slack, !.pc = "1k"])
    /\ UNCHANGED <<ret, ret_marks, fail_depth, blocks>>
    /\ UNCHANGED NotReturn

\* the 6k branch, its buckets in the slack of SA or in local_buffer, up to the
\* recursive call, before which compact_lms_suffixes_32s_omp sets the sign bit
\* of f positions of T, or, without one, to return 0
RRecursion6k ==
    /\ stack # <<>>
    /\ Top.pc = "6k"
    /\ \E cnt \in MChoices(Top.n) \ {0} :
          IF cnt > 1
          THEN \E nm \in NamesChoices(cnt) :
                  IF nm < cnt
                  THEN \E f \in (IF Top.n \div 8192 < Top.k THEN FChoices(nm) ELSE {0}) :
                          /\ stack' = Append(SetTop([Top EXCEPT !.pc = "6k_called", !.marks = f]),
                                             Frame32s(Top.n, Top.fs, cnt, nm, f))
                          /\ ret' = ret /\ ret_marks' = ret_marks
                  ELSE stack' = Pop /\ ret' = <<0>> /\ ret_marks' = Top.marks
          ELSE stack' = Pop /\ ret' = <<0>> /\ ret_marks' = Top.marks
    /\ UNCHANGED <<fail_depth, blocks>>
    /\ UNCHANGED NotReturn

\* the 6k branch after the recursive call has returned: a failure is returned
\* at once, a success after reconstruct_compacted_lms_suffixes_32s_2k_omp
RRecursion6kResume ==
    /\ stack # <<>>
    /\ Top.pc = "6k_called"
    /\ ret # <<>>
    /\ stack' = Pop
    /\ ret' = IF Failed(ret[1]) THEN <<0 - 2>> ELSE <<0>>
    /\ ret_marks' = IF Failed(ret[1]) THEN Top.marks ELSE 0
    /\ UNCHANGED <<fail_depth, blocks>>
    /\ UNCHANGED NotReturn

\* the 1k branch: buffer = fs < k ? libsais16x64_alloc_aligned(k) : NULL, with
\* the allocation succeeding, and buckets = buffer or a piece of SA
RRecursion1kAlloc ==
    /\ stack # <<>>
    /\ Top.pc = "1k"
    /\ LET buffer == IF Top.fs < Top.k THEN "live" ELSE "null"
       IN  stack' = SetTop([Top EXCEPT !.buffer = buffer, !.pc = "1k_sort",
                               !.buckets = Buckets1k(Top.base, Top.n, Top.k, Top.fs, buffer)])
    /\ blocks' = IF Top.fs < Top.k THEN blocks + 1 ELSE blocks
    /\ UNCHANGED <<ret, ret_marks, fail_depth>>
    /\ UNCHANGED NotReturn

\* the 1k branch: the allocation fails, buckets == NULL, return -2
RRecursion1kAllocFails ==
    /\ stack # <<>>
    /\ Top.pc = "1k"
    /\ Top.fs < Top.k
    /\ Buckets1k(Top.base, Top.n, Top.k, Top.fs, "null") = NoBuckets
    /\ fail_depth' = Len(stack)
    /\ stack' = Pop
    /\ ret' = <<0 - 2>> /\ ret_marks' = Top.marks
    /\ UNCHANGED blocks
    /\ UNCHANGED NotReturn

\* the 1k branch up to the recursive call, before which the buffer is freed
\* and buckets set to NULL, or, without one, to the final passes
RRecursion1kSort ==
    /\ stack # <<>>
    /\ Top.pc = "1k_sort"
    /\ \E cnt \in MChoices(Top.n) \ {0} :
          IF cnt > 1
          THEN \E nm \in NamesChoices(cnt) :
                  IF nm < cnt
                  THEN \E f \in FChoices(nm) :
                          LET freed == IF Top.buffer # "null"
                                       THEN [Top EXCEPT !.buffer = free_aligned(Top.buffer),
                                                        !.buckets = NoBuckets]
                                       ELSE Top
                          IN  /\ stack' = Append(SetTop([freed EXCEPT !.pc = "1k_called",
                                                                      !.marks = f]),
                                                 Frame32s(Top.n, Top.fs, cnt, nm, f))
                              /\ blocks' = Freed(Top.buffer, freed.buffer)
                  ELSE stack' = SetTop([Top EXCEPT !.pc = "1k_final"]) /\ blocks' = blocks
          ELSE stack' = SetTop([Top EXCEPT !.pc = "1k_final"]) /\ blocks' = blocks
    /\ UNCHANGED <<ret, ret_marks, fail_depth>>
    /\ UNCHANGED NotReturn

\* the 1k branch after the recursive call has returned
RRecursion1kResume ==
    /\ stack # <<>>
    /\ Top.pc = "1k_called"
    /\ ret # <<>>
    /\ IF Failed(ret[1])
       THEN stack' = Pop /\ ret' = <<0 - 2>> /\ ret_marks' = Top.marks
       ELSE stack' = SetTop([Top EXCEPT !.pc = "1k_realloc", !.marks = 0]) /\ ret' = <<>> /\ ret_marks' = 0
    /\ UNCHANGED <<fail_depth, blocks>>
    /\ UNCHANGED NotReturn

\* the 1k branch: if (buckets == NULL) buckets = buffer = alloc_aligned(k), with
\* the allocation succeeding
RRecursion1kRealloc ==
    /\ stack # <<>>
    /\ Top.pc = "1k_realloc"
    /\ IF Top.buckets = NoBuckets
       THEN /\ stack' = SetTop([Top EXCEPT !.pc = "1k_final", !.buffer = "live",
                                           !.buckets = HeapBuckets])
            /\ blocks' = blocks + 1
       ELSE /\ stack' = SetTop([Top EXCEPT !.pc = "1k_final"])
            /\ blocks' = blocks
    /\ UNCHANGED <<ret, ret_marks, fail_depth>>
    /\ UNCHANGED NotReturn

\* the 1k branch: the second allocation fails, buckets == NULL, return -2
RRecursion1kReallocFails ==
    /\ stack # <<>>
    /\ Top.pc = "1k_realloc"
    /\ Top.buckets = NoBuckets
    /\ fail_depth' = Len(stack)
    /\ stack' = Pop
    /\ ret' = <<0 - 2>> /\ ret_marks' = Top.marks
    /\ UNCHANGED blocks
    /\ UNCHANGED NotReturn

\* the 1k branch: the final passes on buckets, then free_aligned(buffer)
RRecursion1kFinal ==
    /\ stack # <<>>
    /\ Top.pc = "1k_final"
    /\ stack' = SetTop([Top EXCEPT !.pc = "1k_return", !.buffer = free_aligned(Top.buffer)])
    /\ blocks' = Freed(Top.buffer, free_aligned(Top.buffer))
    /\ UNCHANGED <<ret, ret_marks, fail_depth>>
    /\ UNCHANGED NotReturn

\* the 1k branch: return 0
RRecursion1kReturn ==
    /\ stack # <<>>
    /\ Top.pc = "1k_return"
    /\ stack' = Pop
    /\ ret' = <<0>> /\ ret_marks' = Top.marks
    /\ UNCHANGED <<fail_depth, blocks>>
    /\ UNCHANGED NotReturn

ReturnNext ==
    \/ RCall
    \/ RMainAlloc
    \/ RMainAllocFails
    \/ RMain16u
    \/ RMain16uResume
    \/ RMain16uFinal
    \/ RMainReturn
    \/ RRecursionEnter
    \/ RRecursion6k
    \/ RRecursion6kResume
    \/ RRecursion1kAlloc
    \/ RRecursion1kAllocFails
    \/ RRecursion1kSort
    \/ RRecursion1kResume
    \/ RRecursion1kRealloc
    \/ RRecursion1kReallocFails
    \/ RRecursion1kFinal
    \/ RRecursion1kReturn

SpecReturn == ReturnInit /\ [][ReturnNext]_vars

\* libsais16x64 has returned
Returned == stack = <<>> /\ ret # <<>>

\* C5: once a heap allocation has failed, in libsais16x64_main or at any depth
\* of libsais16x64_main_32s_recursion, every call returns -2 up to libsais16x64
\* itself, and no call ever returns anything but 0, -1 or -2
C5_AllocFailure ==
    ret # <<>> =>
        /\ ret[1] \in {0, 0 - 1, 0 - 2}
        /\ fail_depth > 0 => ret[1] = 0 - 2

\* libsais16x64 has returned -2 after a failure two recursive calls deep
C5_Witness == Returned /\ ret[1] = 0 - 2 /\ fail_depth >= 3

\* -2 is returned only after an allocation has failed, and no block is left
\* on the heap
OnlyFailureGivesMinus2 ==
    /\ ret # <<>> /\ ret[1] = 0 - 2 => fail_depth > 0
    /\ Returned => blocks = 0

(***************************************************************************)
(* The frequency table and the short texts of libsais16x64.                *)
(***************************************************************************)
\* the number of positions of T that hold the symbol c
Occurrences(c) == Cardinality({i \in 0..(Len(T) - 1) : At(T, i) = c})

\* C11: when freq is not NULL and libsais16x64 returns 0, freq[c] is the number
\* of positions i in [0, n) with T[i] = c for every symbol c, for n = 0, n = 1
\* and every n >= 2, whatever freq held before the call
C11_Frequencies ==
    epc = "returned" /\ index = 0 /\ ~args.freq_null =>
        \A c \in 0..(ALPHABET_SIZE - 1) : At(freq, c) = Occurrences(c)

\* a text of at least two symbols, one of them repeated, with LMS suffixes
C11_Witness ==
    /\ epc = "returned" /\ index = 0 /\ ~args.freq_null
    /\ args.n >= 2
    /\ frame.m > 0
    /\ \E c \in Symbols : Occurrences(c) >= 2
    /\ freq0 # freq

\* the table is filled for the texts of length 0 and 1 as well
ShortTextFrequencies ==
    \A len \in {0, 1} :
        epc = "returned" /\ index = 0 /\ ~args.freq_null /\ args.n = len =>
            /\ freq0 = Filled(ALPHABET_SIZE, Garbage)
            /\ \A c \in 0..(ALPHABET_SIZE - 1) :
                  At(freq, c) = IF len = 1 /\ At(T, 0) = c THEN 1 ELSE 0

\* C15: for n < 2 and valid arguments libsais16x64 returns 0 without running
\* the engine (no allocation, no pass); for n = 0 no slot of SA is written, for
\* n = 1 SA[0] = 0 is written and SA[1 .. 1 + fs) is left as it was
C15_ShortTexts ==
    (~args.T_null /\ ~args.SA_null /\ args.n \in {0, 1} /\ args.fs >= 0) =>
        /\ epc \in {"call", "returned"}
        /\ heap.mallocs = 0
        /\ buckets = <<>>
        /\ frame = NoFrame
        /\ epc = "returned" =>
              /\ index = 0
              /\ Len(SA) = Len(SA0)
              /\ args.n = 0 => SA = SA0
              /\ args.n = 1 =>
                    /\ At(SA, 0) = 0
                    /\ \A i \in 1..args.fs : At(SA, i) = At(SA0, i)

\* the call for a text of one symbol with slack behind it has returned
C15_Witness ==
    /\ epc = "returned"
    /\ ~args.T_null /\ ~args.SA_null
    /\ args.n = 1
    /\ args.fs = MaxFs
    /\ At(SA0, 0) = Garbage
    /\ At(SA, 0) = 0

\* the call for the empty text with slack has returned
EmptyTextReturned ==
    /\ epc = "returned"
    /\ ~args.T_null /\ ~args.SA_null
    /\ args.n = 0
    /\ args.fs = MaxFs
    /\ SA = Filled(MaxFs, Garbage)

\* T holds n >= 2 copies of one symbol and the arguments are valid
AllEqualCall ==
    /\ ~args.T_null /\ ~args.SA_null /\ args.fs >= 0
    /\ args.n >= 2
    /\ \A i \in 0..(args.n - 1) : At(T, i) = At(T, 0)

\* C16: for n >= 2 copies of one symbol libsais16x64 returns 0 (its one
\* allocation succeeding) with SA = (n-1, n-2, ..., 0), on the path on which
\* no LMS suffix exists (m = 0)
C16_AllEqual ==
    AllEqualCall =>
        /\ epc \in {"call", "main", "main_16u", "no_lms", "final", "returned"}
        /\ frame.m = 0
        /\ epc = "returned" =>
              /\ index \in {0, 0 - 2}
              /\ index = 0 - 2 => frame = NoFrame /\ SA = SA0
              /\ index = 0 => \A i \in 0..(args.n - 1) : At(SA, i) = args.n - 1 - i

\* MaxLen copies of the largest symbol have been sorted
C16_Witness ==
    /\ AllEqualCall
    /\ epc = "returned"
    /\ index = 0
    /\ args.n = MaxLen
    /\ At(T, 0) = ALPHABET_SIZE - 1
    /\ At(SA, 0) = MaxLen - 1

\* C17: with k = 1 (no packing, no scaling) the suffix array of "banana" is
\* [5,3,1,0,4,2], of "abracadabra" [10,7,0,3,5,8,1,4,6,9,2], of "MISSISSIPPI"
\* [10,7,4,1,0,9,8,6,3,5,2] and of "ACGTACGT" [4,0,5,1,6,2,7,3]
C17_KnownAnswers ==
    (epc = "returned" /\ index = 0 /\ args.fs = 0) =>
        /\ T = Banana => SA = <<5, 3, 1, 0, 4, 2>>
        /\ T = Abracadabra => SA = <<10, 7, 0, 3, 5, 8, 1, 4, 6, 9, 2>>
        /\ T = Mississippi => SA = <<10, 7, 4, 1, 0, 9, 8, 6, 3, 5, 2>>
        /\ T = Acgtacgt => SA = <<4, 0, 5, 1, 6, 2, 7, 3>>

\* "abracadabra" has been sorted from its LMS suffixes
C17_Witness ==
    /\ epc = "returned"
    /\ index = 0
    /\ T = Abracadabra
    /\ frame.m > 1
    /\ At(SA, 0) = 10

\* "banana" has been sorted through the recursion
BananaSorted ==
    /\ epc = "returned"
    /\ index = 0
    /\ T = Banana
    /\ frame.names < frame.m

\* "MISSISSIPPI" has been sorted through the recursion
MississippiSorted ==
    /\ epc = "returned"
    /\ index = 0
    /\ T = Mississippi
    /\ frame.names < frame.m

\* "ACGTACGT" has been sorted
AcgtacgtSorted ==
    /\ epc = "returned"
    /\ index = 0
    /\ T = Acgtacgt

RECURSIVE Increasing(_)
\* the elements of the set S in increasing order, as a sequence
Increasing(S) ==
    IF S = {} THEN <<>>
    ELSE LET x == CHOOSE y \in S : \A z \in S : y <= z
         IN  <<x>> \o Increasing(S \ {x})

\* position i is S-type as the claim has it: T[i..] < T[i+1..], and position
\* n - 1 is S-type
STypeLastS(i) == i = Len(T) - 1 \/ SuffixLess(T, i, i + 1)

\* position i is S-type: T[i..] < T[i+1..], a proper prefix being the smaller;
\* position n - 1 is L-type
SType(i) == SuffixLess(T, i, i + 1)

\* the LMS positions with position n - 1 S-type
LmsLastS == {i \in 1..(Len(T) - 1) : STypeLastS(i) /\ ~STypeLastS(i - 1)}

\* the LMS positions: S-type with an L-type position before them
Lms == {i \in 1..(Len(T) - 1) : SType(i) /\ ~SType(i - 1)}

\* count_and_gather_lms_suffixes_16u has run on a text of n >= 2 symbols
Gathered == epc \in {"lms", "no_lms"}

\* C20 as stated: with position i S-type iff T[i..] < T[i+1..], position n - 1
\* S-type, and i LMS iff i is S-type and i - 1 is L-type,
\* count_and_gather_lms_suffixes_16u returns the number m of LMS positions and
\* leaves them, in increasing order, in SA[n-m..n)
C20_LmsGatheredLastS ==
    Gathered =>
        /\ frame.m = Cardinality(LmsLastS)
        /\ SubSeq(SA, args.n - frame.m + 1, args.n) = Increasing(LmsLastS)

\* C20 amended: the same with position n - 1 L-type (the virtual sentinel is
\* smaller than every symbol, so T[n-1..] is not smaller than the empty suffix)
C20_LmsGathered ==
    Gathered =>
        /\ frame.m = Cardinality(Lms)
        /\ SubSeq(SA, args.n - frame.m + 1, args.n) = Increasing(Lms)

\* a text with two LMS positions and an L-type position n - 2 has been scanned
C20_Witness ==
    /\ Gathered
    /\ frame.m = 2
    /\ At(T, args.n - 2) > At(T, args.n - 1)
    /\ At(SA, args.n - 2) < At(SA, args.n - 1)

(***************************************************************************)
(* The names of the LMS substrings.                                        *)
(***************************************************************************)
\* the LMS positions of T in increasing order
LmsSeq == Increasing(Lms)

\* the LMS substring that starts at the j-th LMS position: the symbols up to
\* and including the next LMS position; the last one runs to the end of T
LmsSubstring(j) ==
    LET from == LmsSeq[j]
        to   == IF j < Len(LmsSeq) THEN LmsSeq[j + 1] ELSE Len(T) - 1
    IN  [q \in 1..(to - from + 1) |-> At(T, from + q - 1)]

\* X < Y as strings, a proper prefix being the smaller
StringLess(X, Y) ==
    \/ Len(X) < Len(Y) /\ SubSeq(Y, 1, Len(X)) = X
    \/ \E q \in 1..Len(X) :
          /\ q <= Len(Y)
          /\ SubSeq(X, 1, q - 1) = SubSeq(Y, 1, q - 1)
          /\ X[q] < Y[q]

\* the name given to the j-th LMS position: entry j of the reduced text
\* SA[n + fs - m .. n + fs)
NameOf(j) == At(SA, args.n + ClampFs(args.fs, args.n) - frame.m + j - 1)

\* libsais16x64_renumber_and_gather_lms_suffixes_omp has returned
Renumbered == epc = "main_32s" \/ (epc = "place" /\ frame.names = frame.m)

\* the numbers: names <= m, recursion iff names < m, on m names in [0, names)
NamesInRange ==
    Renumbered =>
        /\ frame.names <= frame.m
        /\ epc = "main_32s" <=> frame.names < frame.m
        /\ epc = "main_32s" => \A j \in 1..frame.m : NameOf(j) \in 0..(frame.names - 1)

\* two LMS suffixes have the same name iff their LMS substrings are equal
NamesAreClasses ==
    epc = "main_32s" =>
        \A i, j \in 1..frame.m :
            NameOf(i) = NameOf(j) <=> LmsSubstring(i) = LmsSubstring(j)

\* equal LMS substrings have equal names; when every suffix has a name of its
\* own (names = m) no two LMS substrings are equal
EqualSubstringsShareNames ==
    /\ epc = "main_32s" =>
          \A i, j \in 1..frame.m :
              LmsSubstring(i) = LmsSubstring(j) => NameOf(i) = NameOf(j)
    /\ epc = "place" /\ frame.names = frame.m =>
          \A i, j \in 1..frame.m : i # j => LmsSubstring(i) # LmsSubstring(j)

\* a smaller LMS substring never has a larger name
NamesAreMonotone ==
    epc = "main_32s" =>
        \A i, j \in 1..frame.m :
            StringLess(LmsSubstring(i), LmsSubstring(j)) => NameOf(i) <= NameOf(j)

\* the names follow the order of the suffixes: a smaller name is a smaller suffix
NamesFollowSuffixes ==
    epc = "main_32s" =>
        \A i, j \in 1..frame.m :
            NameOf(i) < NameOf(j) => SuffixLess(T, LmsSeq[i], LmsSeq[j])

DifferentSubstringsOneName ==
    /\ epc = "main_32s"
    /\ \E i, j \in 1..frame.m : NameOf(i) = NameOf(j) /\ LmsSubstring(i) # LmsSubstring(j)

(***************************************************************************)
(* The marker-shift pass.                                                  *)
(***************************************************************************)
\* the ranges <<lo, hi>> libsais16x64_partial_sorting_shift_markers_16u_omp
\* sweeps, one per symbol but the first
SweptRanges16u(bkt) ==
    {<<At(bkt, BUCKETS_INDEX2(c - 1, 0)), At(bkt, 4 * ALPHABET_SIZE + BUCKETS_INDEX2(c, 0)) - 1>> :
        c \in 1..(ALPHABET_SIZE - 1)}

\* the ranges libsais16x64_partial_sorting_shift_markers_32s_6k_omp sweeps
SweptRanges6k(syms, bkt) ==
    {<<At(bkt, 4 * syms + BUCKETS_INDEX2(c - 1, 0)), At(bkt, BUCKETS_INDEX4(c, 0)) - 1>> :
        c \in 1..(syms - 1)}

\* the counters of the 16u bucket block the pass reads, laid out as the 6k
\* block of an alphabet of ALPHABET_SIZE symbols has them: buckets[4 * c] and
\* temp_bucket[2 * c]
Layout6k(bkt) ==
    [j \in 1..(6 * ALPHABET_SIZE) |->
        LET q == j - 1
        IN  IF q < 4 * ALPHABET_SIZE
            THEN (IF q % 4 = 0 THEN At(bkt, 4 * ALPHABET_SIZE + BUCKETS_INDEX2(q \div 4, 0)) ELSE 0)
            ELSE (IF q % 2 = 0 THEN At(bkt, q - 4 * ALPHABET_SIZE) ELSE 0)]

\* new is old but for the sign bits in the ranges, where the tag of the last
\* slot is set and every other slot has the tag its right neighbour had
OnlyTagsShifted(old, new, ranges) ==
    /\ Len(new) = Len(old)
    /\ \A i \in 0..(Len(old) - 1) :
          /\ AndMax(At(new, i)) = AndMax(At(old, i))
          /\ (\A r \in ranges : i < r[1] \/ i > r[2]) => At(new, i) = At(old, i)
    /\ \A r \in ranges :
          r[1] <= r[2] =>
              /\ At(new, r[2]) < 0
              /\ \A i \in r[1]..(r[2] - 1) : At(new, i) < 0 <=> At(old, i + 1) < 0

\* C24: the marker-shift pass changes nothing but sign bits: the low bits of
\* every slot of SA stay, the slots outside the swept ranges are untouched, and
\* within each swept range [lo, hi] the new tag of slot hi is set and the new
\* tag of every slot i in [lo, hi) is the old tag of slot i + 1; for the pass of
\* the 16u text and for the pass of the 6k branch
C24_MarkerShift ==
    [][epc = "scanned_left" =>
          /\ OnlyTagsShifted(SA, SA', SweptRanges16u(buckets))
          /\ OnlyTagsShifted(SA, partial_sorting_shift_markers_32s_6k_omp(
                                     SA, ALPHABET_SIZE, Layout6k(buckets)),
                             SweptRanges6k(ALPHABET_SIZE, Layout6k(buckets)))]_vars

\* the pass has swept a range of three slots or more and left a slot of it
\* without a tag
C24_Witness ==
    /\ epc = "shifted"
    /\ \E r \in SweptRanges16u(buckets) :
          /\ r[2] >= r[1] + 2
          /\ At(SA, r[2]) < 0
          /\ \E i \in r[1]..(r[2] - 1) : At(SA, i) >= 0

(***************************************************************************)
(* The buckets of libsais16x64_main_32s_recursion.                         *)
(***************************************************************************)
\* the calls of libsais16x64_main_32s_recursion that have chosen their branch
Levels == {i \in 1..Len(stack) : stack[i].fn = "main_32s_recursion" /\ stack[i].pc # "enter"}

\* the positions of the 6k branch
In6k(fr) == fr.pc \in {"6k", "6k_called"}

\* C22: libsais16x64_main_32s_recursion uses the 6k layout iff K > 0 and
\* (fs / K >= 6 or 1024 / K >= 6), otherwise the 1k layout, its buckets in SA's
\* tail iff fs >= K and in a freshly allocated heap buffer iff fs < K; whenever
\* K <= 170 the buckets are local_buffer, 6 * K <= 1024 and the level performs
\* no heap allocation
C22_Layout ==
    \A i \in Levels :
        LET fr == stack[i]
        IN  /\ In6k(fr) <=> fr.k > 0 /\ (fr.fs \div fr.k >= 6 \/ 1024 \div fr.k >= 6)
            /\ fr.pc = "1k_sort" =>
                  /\ fr.buckets.where = "sa" <=> fr.fs >= fr.k
                  /\ fr.buckets.where = "heap" <=> fr.fs < fr.k
                  /\ fr.buckets.where = "heap" <=> fr.buffer = "live"
            /\ fr.k <= 170 =>
                  /\ In6k(fr)
                  /\ fr.buckets = LocalBuckets
                  /\ 6 * fr.k <= 1024
                  /\ fr.buffer = "null"

\* a call with K <= 170 runs on local_buffer under a call of the 1k branch
\* that has freed its heap buffer
C22_Witness ==
    /\ stack # <<>>
    /\ Top.pc = "6k"
    /\ Top.k <= 170
    /\ Top.buckets = LocalBuckets
    /\ \E i \in Levels : stack[i].pc = "1k_called" /\ stack[i].buffer = "freed"

\* a call with K = 170 and no slack runs on local_buffer
LargestLocalAlphabet ==
    /\ stack # <<>>
    /\ Top.pc = "6k"
    /\ Top.k = 170
    /\ Top.fs = 0
    /\ Top.buckets = LocalBuckets

\* a call with K = 171 and no slack has its buckets on the heap
SmallestHeapAlphabet ==
    /\ stack # <<>>
    /\ Top.pc = "1k_sort"
    /\ Top.k = 171
    /\ Top.buckets = HeapBuckets

\* a call with K = 171 has its 6k buckets in the tail of SA
TailBuckets6k ==
    /\ stack # <<>>
    /\ Top.pc = "6k"
    /\ Top.k = 171
    /\ Top.buckets.where = "sa"

\* a call of the 1k branch has its buckets in the tail of SA
TailBuckets1k ==
    /\ stack # <<>>
    /\ Top.pc = "1k_sort"
    /\ Top.buckets.where = "sa"

(***************************************************************************)
(* The heap blocks of libsais16x64.                                        *)
(***************************************************************************)
\* the calls that hold a block of the heap
Holders == {i \in 1..Len(stack) : stack[i].buffer = "live"}

\* the positions at which a call runs passes on its buckets
UsesBuckets(fr) == fr.pc \in {"main_16u", "main_16u_final", "6k", "1k_sort", "1k_final"}

\* C27: every buffer libsais16x64_alloc_aligned returns during a call of
\* libsais16x64 is released by libsais16x64_free_aligned exactly once before
\* the call returns, with 0 or with -2: no block is left and none is freed
\* twice; the 1k bucket buffer freed before a recursive call is not used until
\* it has been allocated again
C27_HeapDiscipline ==
    /\ blocks = Cardinality(Holders)
    /\ \A i \in 1..Len(stack) :
          LET fr == stack[i]
          IN  /\ fr.buffer # "freed twice"
              /\ fr.buffer = "freed" /\ fr.pc \notin {"main_return", "1k_return"} =>
                     fr.pc \in {"1k_called", "1k_realloc"} /\ fr.buckets = NoBuckets
              /\ UsesBuckets(fr) =>
                     /\ fr.buckets # NoBuckets
                     /\ fr.buckets = HeapBuckets => fr.buffer = "live"
    /\ Returned => blocks = 0

\* a recursive call has returned 0 to a call of the 1k branch that freed its
\* buffer before it, two other calls below it
C27_Witness ==
    /\ Len(stack) >= 3
    /\ Top.pc = "1k_realloc"
    /\ Top.buffer = "freed"
    /\ ret = <<>>

\* libsais16x64 has returned -2 after an allocation of a recursive call failed
ReallocFailedAndReturned ==
    /\ Returned
    /\ ret[1] = 0 - 2
    /\ fail_depth >= 2
    /\ blocks = 0

(***************************************************************************)
(* The depth of the recursion.                                             *)
(***************************************************************************)
\* the calls of libsais16x64_main_32s_recursion not yet returned
Calls32s == {i \in 1..Len(stack) : stack[i].fn = "main_32s_recursion"}

LmsAtMostHalf ==
    /\ Gathered => frame.m <= args.n \div 2
    /\ epc = "main_32s" => frame.m >= 1
    /\ frame32 # NoFrame32 =>
          /\ frame32.n = frame.m
          /\ frame32.m <= frame32.n \div 2

\* libsais16x64_main_32s_recursion has counted the LMS suffixes of the names
Counted32s == frame32 # NoFrame32 /\ frame32.m >= 1

(***************************************************************************)
(* The regions of SA.                                                      *)
(***************************************************************************)
\* the entries SA[0 .. n + fs) of a call, fs as the call clamps it
Extent(fr) == fr.n + ClampFs(fr.fs, fr.n)

\* the number of counters of the buckets of a call
Counters(fr) == IF In6k(fr) THEN 6 * fr.k ELSE fr.k

\* the buckets of a call lie in SA[n .. n + fs)
BucketsInSlack(fr) ==
    fr.buckets.where = "sa" =>
        /\ fr.n <= fr.buckets.at
        /\ fr.buckets.at + Counters(fr) <= Extent(fr)

\* C30: at every recursive call the text of the sub-problem, T' =
\* SA[n + fs - m + f .. n + fs), and its region SA[0 .. n' + fs'), fs' >= 0, are
\* disjoint and lie inside the caller's SA[0 .. n + fs); a bucket array placed
\* in the tail of SA, with or without alignment, lies within SA[n .. n + fs)
C30_Regions ==
    /\ \A i \in Calls32s :
          LET sub    == stack[i]
              caller == stack[i - 1]
          IN  /\ sub.fs >= 0
              /\ 0 <= sub.text_at
              /\ Extent(sub) <= sub.text_at
              /\ sub.text_at + sub.n <= Extent(caller)
    /\ \A i \in 1..Len(stack) : BucketsInSlack(stack[i])

\* a call made after f > 0 suffixes were taken out of the reduced text, on an
\* SA that is not aligned, has its buckets in the tail of SA behind a multiple
\* of 16 entries
C30_Witness ==
    /\ Len(stack) >= 3
    /\ Top.fn = "main_32s_recursion"
    /\ Top.base = 5
    /\ Top.n + Top.fs < Top.text_at
    /\ Top.buckets.where = "sa"
    /\ (Top.base + Top.buckets.at) % 16 = 0
    /\ Top.buckets.at + Counters(Top) < Top.n + Top.fs

\* the buckets of Top are in the tail of SA, behind a multiple of alignment
\* entries and no multiple of a larger one
AlignedTail(position, alignment) ==
    /\ stack # <<>>
    /\ Top.pc = position
    /\ Top.base = 5
    /\ Top.buckets.where = "sa"
    /\ (Top.base + Top.buckets.at) % alignment = 0
    /\ (Top.base + Top.buckets.at) % (64 * alignment) # 0

\* the 6k buckets of a call are aligned to 1024 entries
AlignedTail6k == AlignedTail("6k", 1024)

\* the 6k buckets of a call are aligned to 16 entries
AlignedTail6kShort == AlignedTail("6k", 16)

\* the 1k buckets of a call are aligned to 1024 entries
AlignedTail1k == AlignedTail("1k_sort", 1024)

\* the 1k buckets of a call are aligned to 16 entries
AlignedTail1kShort == AlignedTail("1k_sort", 16)

\* the 6k buckets of a call are the last 6K entries of SA's slack
UnalignedTail6k ==
    /\ stack # <<>>
    /\ Top.pc = "6k"
    /\ Top.buckets.where = "sa"
    /\ Top.buckets.at + 6 * Top.k = Top.n + Top.fs

\* the 1k buckets of a call are the last K entries of SA's slack
UnalignedTail1k ==
    /\ stack # <<>>
    /\ Top.pc = "1k_sort"
    /\ Top.buckets.where = "sa"
    /\ Top.buckets.at + Top.k = Top.n + Top.fs

(***************************************************************************)
(* The text of libsais16x64_main_32s_recursion.                            *)
(***************************************************************************)
\* C12: on every return from libsais16x64_main_32s_recursion, with 0 or with
\* -2, every T[i] equals its value at entry: no sign bit set by the compact
\* path is left
C12_TextRestored == ret # <<>> => ret_marks = 0

\* a call that returns 0 has cleared every sign bit it set in T
TextRestoredOnSuccess == ret # <<>> /\ ret[1] = 0 => ret_marks = 0

\* a call that compacted f > 0 suffixes has returned 0
CompactedAndReturned ==
    /\ stack # <<>>
    /\ Top.pc = "1k_realloc"
    /\ ret = <<>>


====
